---- MODULE Spec2Model ----
(***************************************************************************)
(* chart-val: the webhook dispatcher (github_in/handler.go) and the diff   *)
(* orchestrator (app/service.go).                                          *)
(*                                                                         *)
(* SpecWebhook  - ServeHTTP and the detached tasks it spawns, with the     *)
(*                orchestrator behind the ports.DiffUseCase interface.     *)
(* SpecExec     - one run of DiffService.Execute with its collaborators    *)
(*                (change detection, resolver sources, fetch, render,      *)
(*                diff, reporting) answering nondeterministically.         *)
(* SpecChart    - one call of DiffService.processChart on a configuration  *)
(*                drawn from a larger set of environment lists.            *)
(***************************************************************************)
EXTENDS Integers, Sequences, FiniteSets, TLC

\* ---------------------------------------------------------------- bounds
MaxReq == 6        \* webhook requests that arrive in one behaviour
MaxRejected == 2   \* of which rejected or ignored (answered 401, 400 or 200)
MaxCharts == 2     \* changed charts returned by change detection
MaxEnvs == 3       \* environments of the configuration given to processChart
MaxEnvCap == 2     \* largest maxEnvConcurrency a service is configured with
MaxSyncs == 2      \* pull cycles of the mirror after Start
MaxReaders == 2    \* goroutines looking charts up in the Argo index
MaxDepth == 3      \* directory components of a manifest's path, and parts of a folder pattern
MaxPosts == 4      \* calls of PostComment on one pull request
MaxRuns == 2       \* runs of Execute on one state of a pull request
MaxPosters == 2    \* runs of Execute posting the comment of one chart at the same time

\* ------------------------------------------------------ program constants
maxConcurrentWebhooks == 5

StatusUnauthorized == 401
StatusBadRequest == 400
StatusOK == 200
StatusAccepted == 202

\* domain.Status
StatusSuccess == 0
StatusChanges == 1
StatusError == 2

VARIABLES
  nextReq,   \* id of the next request to arrive
  lastIn,    \* the request most recently handed to ServeHTTP
  resp,      \* request id -> status code written (0: not written yet)
  task,      \* request id -> position of the detached goroutine
  sem        \* number of elements buffered in h.sem

wvars == <<nextReq, lastIn, resp, task, sem>>

VARIABLES
  pc,            \* position of the run inside Execute / processChart
  ret,           \* what Execute returned: "none" while running, "nil", or the error
  changedCharts, \* the list returned by GetChangedCharts
  created,       \* in-progress checks created on the reporter
  updates,       \* the result lists passed to UpdateCheckWithResults, in order
  idx,           \* index of the chart the loop of Execute is at
  config,        \* the ChartConfig processChart is working on
  fetch,         \* how the base and head fetch of that chart ended
  live,          \* fetched chart directories not yet cleaned up
  ej,            \* index of the environment processChart is at
  results,       \* the results slice of processChart
  outcomes,      \* per changed chart, in order: skipped, or what processChart returned
  allResults,    \* allResults of Execute
  chartResults,  \* chartResults of Execute: chart name -> results
  todo,          \* keys of chartResults the comment loop has not visited yet
  posted,        \* keys of chartResults PostComment was called for
  called,        \* collaborator operations invoked so far in the run
  dyff,          \* whether the dyff binary runs when the semantic differ calls it
  reporter,      \* whether the reporter accepts the results and the comments of the run
  failed,        \* the collaborator calls of the run that returned an error
  renders,       \* the render calls made for the environment processed last
  cfgSource      \* where getChartConfig took config from, and what each source it asked had

evars == <<pc, ret, changedCharts, created, updates, idx, config, fetch, live,
           ej, results, outcomes, allResults, chartResults, todo, posted, called, dyff, reporter, failed, renders, cfgSource>>

VARIABLES
  envCap,    \* places for the workers of a fan-out: maxEnvConcurrency, or one per environment when it is not set
  wk         \* environment index -> position of that environment's worker

kvars == <<envCap, wk>>

VARIABLES
  mirror,    \* the Application files in the local clone, as positions in AppFiles
  index,     \* a.index: chart name -> the apps indexed under it
  gpc,       \* position of the goroutine that runs Start and then syncLoop
  building,  \* the local map of the rebuildIndex in progress
  walked,    \* position in AppFiles the walk of that rebuildIndex has passed
  rd,        \* lookup goroutine -> position, chart asked for and apps read
  cycles,    \* pull cycles begun by syncLoop
  walks,     \* calls of rebuildIndex so far
  before,    \* a.index and walks when the last cycle began, and how its pull ended
  rmu        \* who holds r.mu of the GitRepo: "free", "Start" or "sync"

ivars == <<mirror, index, gpc, building, walked, rd, cycles, walks, before, rmu>>

VARIABLES
  call,      \* a function called on its own: its name and its arguments
  retv       \* what that call returned

fvars == <<call, retv>>

VARIABLES
  comments,  \* the comments of the pull request, oldest first: id and chart of the marker
  posts,     \* chart -> calls of PostComment for it, and how many returned nil
  posting,   \* the last call of PostComment: its chart and what its requests did
  poster     \* concurrent run -> position of its call of PostComment and the comments it listed

cvars == <<comments, posts, posting, poster>>

xvars == <<kvars, ivars, fvars, cvars>>

vars == <<wvars, evars, xvars>>

\* ------------------------------------------------------------- requests

\* what a request carries: whether the signature header matches the body,
\* whether the payload parses for its event type, the event type and, for
\* pull-request events, the action
Input(s, p, e, a) == [sig |-> s, parse |-> p, event |-> e, action |-> a]

\* one request per path through ServeHTTP: a tampered body, an unparseable
\* payload, a push event, and a pull-request event with each action
RequestInputs ==
  {Input(FALSE, TRUE, "pull_request", "opened"),
   Input(TRUE, FALSE, "pull_request", "opened"),
   Input(TRUE, TRUE, "push", "closed")}
  \cup {Input(TRUE, TRUE, "pull_request", a) : a \in {"opened", "synchronize", "reopened", "closed"}}


\* ResponseFor with the signature failure logged and not rejected
ResponseFor_sigLogged(in) ==
  IF ~in.parse THEN StatusBadRequest
  ELSE IF in.event # "pull_request" THEN StatusOK
  ELSE IF in.action # "opened" /\ in.action # "synchronize" /\ in.action # "reopened"
       THEN StatusOK
  ELSE 0

\* ResponseFor without the filter on the pull-request action
ResponseFor_anyAction(in) ==
  IF ~in.sig THEN StatusUnauthorized
  ELSE IF ~in.parse THEN StatusBadRequest
  ELSE IF in.event # "pull_request" THEN StatusOK
  ELSE 0

\* the status code ServeHTTP selects, or 0 when the request is dispatched
ResponseFor(in) ==
  IF ~in.sig THEN StatusUnauthorized
  ELSE IF ~in.parse THEN StatusBadRequest
  ELSE IF in.event # "pull_request" THEN StatusOK
  ELSE IF in.action # "opened" /\ in.action # "synchronize" /\ in.action # "reopened"
       THEN StatusOK
  ELSE 0

Upd(f, k, v) == [x \in DOMAIN f \cup {k} |-> IF x = k THEN v ELSE f[x]]

\* ServeHTTP taking the worker slot itself, before the response is written
ServeHTTP_acquiresSlot(in) ==
  /\ nextReq <= MaxReq
  /\ \A r \in DOMAIN resp : resp[r] # 0
  \* at most MaxRejected requests answered without a dispatch
  /\ ResponseFor(in) # 0 => Cardinality({r \in DOMAIN resp : r \notin DOMAIN task}) < MaxRejected
  /\ LET id == nextReq
         code == ResponseFor(in)
     IN /\ lastIn' = [id |-> id, sig |-> in.sig, parse |-> in.parse,
                      event |-> in.event, action |-> in.action]
        /\ resp' = Upd(resp, id, code)
        /\ IF code = 0
           THEN /\ sem < maxConcurrentWebhooks
                /\ sem' = sem + 1
                /\ task' = Upd(task, id, "running")
           ELSE UNCHANGED <<task, sem>>
  /\ nextReq' = nextReq + 1
  /\ UNCHANGED <<evars, xvars>>

\* a handler with a queue of maxConcurrentWebhooks places: an accepted event
\* that finds them taken is answered and not dispatched
ServeHTTP_dropsWhenFull(in) ==
  /\ nextReq <= MaxReq
  /\ \A r \in DOMAIN resp : resp[r] # 0
  /\ ResponseFor(in) # 0 => Cardinality({r \in DOMAIN resp : r \notin DOMAIN task}) < MaxRejected
  /\ LET id == nextReq
         code == ResponseFor(in)
         full == Cardinality({r \in DOMAIN task : task[r] # "done"}) >= maxConcurrentWebhooks
     IN /\ lastIn' = [id |-> id, sig |-> in.sig, parse |-> in.parse,
                      event |-> in.event, action |-> in.action]
        /\ resp' = Upd(resp, id, IF code = 0 /\ full THEN StatusAccepted ELSE code)
        /\ task' = IF code = 0 /\ ~full THEN Upd(task, id, "waiting") ELSE task
  /\ nextReq' = nextReq + 1
  /\ UNCHANGED <<sem, evars, xvars>>

\* ServeHTTP up to and including the go statement: rejected and ignored
\* requests are answered at once; an accepted one has its goroutine spawned
\* and its 202 still to be written.
ServeHTTP(in) ==
  /\ nextReq <= MaxReq
  /\ \A r \in DOMAIN resp : resp[r] # 0
  \* at most MaxRejected requests answered without a dispatch
  /\ ResponseFor(in) # 0 => Cardinality({r \in DOMAIN resp : r \notin DOMAIN task}) < MaxRejected
  /\ LET id == nextReq
         code == ResponseFor(in)
     IN /\ lastIn' = [id |-> id, sig |-> in.sig, parse |-> in.parse,
                      event |-> in.event, action |-> in.action]
        /\ resp' = Upd(resp, id, code)
        /\ task' = IF code = 0 THEN Upd(task, id, "waiting") ELSE task
  /\ nextReq' = nextReq + 1
  /\ UNCHANGED <<sem, evars, xvars>>

\* w.WriteHeader(http.StatusAccepted) after the go statement
WriteAccepted(r) ==
  /\ r \in DOMAIN resp
  /\ resp[r] = 0
  /\ resp' = [resp EXCEPT ![r] = StatusAccepted]
  /\ UNCHANGED <<nextReq, lastIn, task, sem, evars, xvars>>

\* Acquire on a channel whose send never blocks
Acquire_neverBlocks(r) ==
  /\ r \in DOMAIN task
  /\ task[r] = "waiting"
  /\ sem' = sem + 1
  /\ task' = [task EXCEPT ![r] = "running"]
  /\ UNCHANGED <<nextReq, lastIn, resp, evars, xvars>>

\* h.sem <- struct{}{} followed by the call of h.useCase.Execute
Acquire(r) ==
  /\ r \in DOMAIN task
  /\ task[r] = "waiting"
  /\ sem < maxConcurrentWebhooks
  /\ sem' = sem + 1
  /\ task' = [task EXCEPT ![r] = "running"]
  /\ UNCHANGED <<nextReq, lastIn, resp, evars, xvars>>

\* the slot given back after the call instead of in a defer set before it:
\* a run that ends with an error leaves without releasing
ExecuteReturn_releasesOnSuccess(r) ==
  /\ r \in DOMAIN task
  /\ task[r] = "running"
  /\ \E err \in BOOLEAN : /\ task' = [task EXCEPT ![r] = "done"]
                          /\ sem' = IF err THEN sem ELSE sem - 1
  /\ UNCHANGED <<nextReq, lastIn, resp, evars, xvars>>

\* the goroutine ending without giving its slot back
ExecuteReturn_keepsSlot(r) ==
  /\ r \in DOMAIN task
  /\ task[r] = "running"
  /\ \E err \in BOOLEAN : task' = [task EXCEPT ![r] = "done"]
  /\ UNCHANGED <<nextReq, lastIn, resp, sem, evars, xvars>>

\* the rest of the goroutine: h.useCase.Execute returns (nil or an error,
\* which is only logged) and the deferred <-h.sem gives the slot back
ExecuteReturn(r) ==
  /\ r \in DOMAIN task
  /\ task[r] = "running"
  /\ \E err \in BOOLEAN : task' = [task EXCEPT ![r] = "done"]
  /\ sem' = sem - 1
  /\ UNCHANGED <<nextReq, lastIn, resp, evars, xvars>>

\* ------------------------------------------------------------ orchestrator
\* domain.PRContext of the run
BaseRef == "main"
HeadRef == "feature"

noChangesMessage == "No changes detected."

\* paths are lists of components; filepath.Base is the last one
extractChartNameFromPath(path) == path[Len(path)]

EnvironmentConfig(name, valueFiles, message) ==
  [Name |-> name, ValueFiles |-> valueFiles, Message |-> message]

ChartConfig(path, envs) == [Path |-> path, Environments |-> envs]

DiffResult(chartName, env, status, unified, semantic, summary) ==
  [ChartName |-> chartName, Environment |-> env, BaseRef |-> BaseRef,
   HeadRef |-> HeadRef, Status |-> status, UnifiedDiff |-> unified,
   SemanticDiff |-> semantic, Summary |-> summary]

\* hasChanges: some result has changes or errors
hasChanges(rs) ==
  \E i \in 1..Len(rs) : rs[i].Status = StatusChanges \/ rs[i].Status = StatusError

\* --- change detection: chart names up to renaming, in discovery order; each
\* changed chart lives in its own directory and declares its name in
\* Chart.yaml, so two directories may declare the same name
AllChartNames == <<"app-a", "app-b", "app-c", "app-d", "app-e">>

ChangedChart(name, path) == [Name |-> name, Path |-> path]

ChartLists ==
  LET AllChartDirs == <<"dir-1", "dir-2", "dir-3", "dir-4", "dir-5">>
      NamePatterns(n) ==
        {s \in [1..n -> 1..n] :
           /\ n > 0 => s[1] = 1
           /\ \A k \in 2..n : \E j \in 1..(k-1) : s[k] <= s[j] + 1}
  IN UNION {{[k \in 1..n |-> ChangedChart(AllChartNames[s[k]], <<"charts", AllChartDirs[k]>>)]
               : s \in NamePatterns(n)} : n \in 0..MaxCharts}

\* --- the two environment sources behind ports.EnvironmentConfigPort
ArgoEnvs == <<EnvironmentConfig("prod", <<"values-prod.yaml">>, "")>>

NoConfig == ChartConfig(<<>>, <<>>)

\* argo source: not wired (nil), failing, chart not in the index (empty
\* list), or a hit whose path is the ChartPath of the first indexed app
ArgoAnswers(chartName) ==
  {[configured |-> FALSE, err |-> FALSE, config |-> NoConfig],
   [configured |-> TRUE, err |-> TRUE, config |-> NoConfig],
   [configured |-> TRUE, err |-> FALSE, config |-> ChartConfig(<<"charts", chartName>>, <<>>)],
   [configured |-> TRUE, err |-> FALSE, config |-> ChartConfig(<<"charts", chartName>>, ArgoEnvs)],
   [configured |-> TRUE, err |-> FALSE, config |-> ChartConfig(<<"platform", "shared">>, ArgoEnvs)]}

FsAnswers(chartName) ==
  {[err |-> TRUE, config |-> NoConfig]}
  \cup {[err |-> FALSE, config |-> ChartConfig(<<"charts", chartName>>, envs)] : envs \in {<<>>, <<EnvironmentConfig("prod", <<"env/prod-values.yaml">>, "")>>, <<EnvironmentConfig("dev", <<"env/dev-values.yaml">>, ""), EnvironmentConfig("prod", <<"env/prod-values.yaml">>, "")>>}}

\* what getChartConfig has from a source: the environments it answered with,
\* none when it was not asked or failed
Envs(answer) == IF answer.err THEN <<>> ELSE answer.config.Environments
NoSource == [source |-> "none", scanned |-> FALSE, index |-> <<>>, scan |-> <<>>]

\* getChartConfig asking both sources and preferring what the scan found
getChartConfig_scanWins(chartName, argo, fs) ==
  LET chartPath == <<"charts", chartName>>
      indexed == IF argo.configured THEN Envs(argo) ELSE <<>>
  IN IF fs.err
       THEN [err |-> TRUE, config |-> NoConfig, from |-> NoSource]
     ELSE IF Len(fs.config.Environments) > 0
       THEN [err |-> FALSE, config |-> fs.config,
             from |-> [source |-> "filesystem", scanned |-> TRUE, index |-> indexed,
                       scan |-> fs.config.Environments]]
     ELSE IF Len(indexed) > 0
       THEN [err |-> FALSE, config |-> argo.config,
             from |-> [source |-> "argo", scanned |-> TRUE, index |-> indexed, scan |-> Envs(fs)]]
     ELSE [err |-> FALSE,
           config |-> ChartConfig(chartPath, <<EnvironmentConfig("default", <<>>, "")>>),
           from |-> [source |-> "default", scanned |-> TRUE, index |-> indexed, scan |-> Envs(fs)]]

\* getChartConfig returning the error of the argo source
getChartConfig_indexErrorFails(chartName, argo, fs) ==
  LET chartPath == <<"charts", chartName>>
      indexed == IF argo.configured THEN Envs(argo) ELSE <<>>
  IN IF argo.configured /\ argo.err
       THEN [err |-> TRUE, config |-> NoConfig, from |-> NoSource]
     ELSE IF argo.configured /\ Len(argo.config.Environments) > 0
       THEN [err |-> FALSE, config |-> argo.config,
             from |-> [source |-> "argo", scanned |-> FALSE, index |-> indexed, scan |-> <<>>]]
     ELSE IF fs.err
       THEN [err |-> TRUE, config |-> NoConfig, from |-> NoSource]
     ELSE IF Len(fs.config.Environments) > 0
       THEN [err |-> FALSE, config |-> fs.config,
             from |-> [source |-> "filesystem", scanned |-> TRUE, index |-> indexed,
                       scan |-> fs.config.Environments]]
     ELSE [err |-> FALSE,
           config |-> ChartConfig(chartPath, <<EnvironmentConfig("default", <<>>, "")>>),
           from |-> [source |-> "default", scanned |-> TRUE, index |-> indexed, scan |-> Envs(fs)]]

\* getChartConfig: argo source first, then the filesystem source, then the
\* single environment "default"; from is the config.source it records
getChartConfig(chartName, argo, fs) ==
  LET chartPath == <<"charts", chartName>>
      indexed == IF argo.configured THEN Envs(argo) ELSE <<>>
  IN IF argo.configured /\ ~argo.err /\ Len(argo.config.Environments) > 0
       THEN [err |-> FALSE, config |-> argo.config,
             from |-> [source |-> "argo", scanned |-> FALSE, index |-> indexed, scan |-> <<>>]]
     ELSE IF fs.err
       THEN [err |-> TRUE, config |-> NoConfig, from |-> NoSource]
     ELSE IF Len(fs.config.Environments) > 0
       THEN [err |-> FALSE, config |-> fs.config,
             from |-> [source |-> "filesystem", scanned |-> TRUE, index |-> indexed,
                       scan |-> fs.config.Environments]]
     ELSE [err |-> FALSE,
           config |-> ChartConfig(chartPath, <<EnvironmentConfig("default", <<>>, "")>>),
           from |-> [source |-> "default", scanned |-> TRUE, index |-> indexed, scan |-> Envs(fs)]]

\* --- render and diff collaborators
Manifests == {"", "replicas: 1"}
RenderAnswers == [err : {TRUE}, manifest : {""}] \cup [err : {FALSE}, manifest : Manifests]
NilManifest == ""

\* a call of s.renderer.Render that was not made, and one that returned r
NotCalled == [called |-> FALSE, err |-> FALSE, manifest |-> ""]
Called(r) == [called |-> TRUE, err |-> r.err, manifest |-> r.manifest]
NoRenders == [base |-> NotCalled, head |-> NotCalled]

\* the lines of a manifest as a diff shows them: taken away, or added
Removed(manifest) == IF manifest = "" THEN "" ELSE "-" \o manifest \o "\n"
Added(manifest) == IF manifest = "" THEN "" ELSE "+" \o manifest

\* a line differ that writes the file header even when no line differs
UnifiedDiffOf_alwaysHeader(base, head, difflibErr) ==
  "--- base\n+++ head\n" \o Removed(base) \o Added(head)
\* line differ: empty exactly when the two manifests have the same lines,
\* else the lines of base taken away and the lines of head added; when
\* difflib returns an error, the text that starts "error computing diff"
UnifiedDiffOf(base, head, difflibErr) ==
  IF difflibErr THEN "error computing diff: " \o "difflib"
  ELSE IF base = head THEN "" ELSE Removed(base) \o Added(head)
\* semantic differ: empty when there is no difference or when dyff cannot
\* run, else the header and what dyff reports between the two files
SemanticDiffOf(base, head, dyffRuns) ==
  IF base = head \/ ~dyffRuns THEN "" ELSE "dyff\n" \o Removed(base) \o Added(head)

\* diffChartEnv rendering the base ref although the chart is not in it
diffChartEnv_rendersBase(chartName, baseExists, env, rb, rh, dyffRuns, difflibErr) ==
  IF rb.err
    THEN [err |-> TRUE, msg |-> "failed to render base branch", result |-> <<>>,
          renders |-> [base |-> Called(rb), head |-> NotCalled]]
  ELSE IF rh.err
    THEN [err |-> TRUE, msg |-> "failed to render PR changes", result |-> <<>>,
          renders |-> [base |-> Called(rb), head |-> Called(rh)]]
  ELSE
    LET baseManifest == rb.manifest
        semanticDiff == SemanticDiffOf(baseManifest, rh.manifest, dyffRuns)
        unifiedDiff == UnifiedDiffOf(baseManifest, rh.manifest, difflibErr)
    IN [err |-> FALSE, msg |-> "",
        renders |-> [base |-> Called(rb), head |-> Called(rh)],
        result |->
          IF unifiedDiff # "" \/ semanticDiff # ""
            THEN DiffResult(chartName, env.Name, StatusChanges, unifiedDiff,
                            semanticDiff, "Changes detected")
            ELSE DiffResult(chartName, env.Name, StatusSuccess, unifiedDiff,
                            semanticDiff, noChangesMessage)]

\* diffChartEnv: the result, or the error it returns, and the renders it made;
\* dyffRuns and difflibErr say what the two differs meet (the runs of Execute
\* are those in which go-difflib writes its buffer without an error)
diffChartEnv(chartName, baseExists, env, rb, rh, dyffRuns, difflibErr) ==
  IF baseExists /\ rb.err
    THEN [err |-> TRUE, msg |-> "failed to render base branch", result |-> <<>>,
          renders |-> [base |-> Called(rb), head |-> NotCalled]]
  ELSE IF rh.err
    THEN [err |-> TRUE, msg |-> "failed to render PR changes", result |-> <<>>,
          renders |-> [base |-> IF baseExists THEN Called(rb) ELSE NotCalled,
                       head |-> Called(rh)]]
  ELSE
    LET baseManifest == IF baseExists THEN rb.manifest ELSE NilManifest
        semanticDiff == SemanticDiffOf(baseManifest, rh.manifest, dyffRuns)
        unifiedDiff == UnifiedDiffOf(baseManifest, rh.manifest, difflibErr)
    IN [err |-> FALSE, msg |-> "",
        renders |-> [base |-> IF baseExists THEN Called(rb) ELSE NotCalled,
                     head |-> Called(rh)],
        result |->
          IF unifiedDiff # "" \/ semanticDiff # ""
            THEN DiffResult(chartName, env.Name, StatusChanges, unifiedDiff,
                            semanticDiff, "Changes detected")
            ELSE DiffResult(chartName, env.Name, StatusSuccess, unifiedDiff,
                            semanticDiff, noChangesMessage)]

NoFetch == [base |-> "none", head |-> "none", baseCalls |-> 0, headCalls |-> 0]

\* where the loop over changedCharts goes after chart i
AfterChart(i) == IF i + 1 > Len(changedCharts) THEN "update" ELSE "chart"

ErrGettingChangedCharts == "getting changed charts"
ErrCreatingCheck == "creating in-progress check"

\* GetChangedCharts with the run going on to the check when no chart changed
GetChangedCharts_noEarlyReturn ==
  /\ pc = "start"
  /\ \E err \in BOOLEAN, charts \in ChartLists :
       IF err
         THEN /\ ret' = ErrGettingChangedCharts /\ pc' = "done"
              /\ failed' = failed \cup {"GetChangedCharts"}
              /\ UNCHANGED changedCharts
         ELSE /\ changedCharts' = charts
              /\ pc' = "create"
              /\ UNCHANGED <<ret, failed>>
  /\ called' = called \cup {"GetChangedCharts"}
  /\ UNCHANGED <<created, updates, idx, config, fetch, live, ej, results,
                 outcomes, allResults, chartResults, todo, posted, dyff, reporter, renders, cfgSource, wvars, xvars>>

\* s.changedCharts.GetChangedCharts, its error return and the zero-charts return
GetChangedCharts ==
  /\ pc = "start"
  /\ \E err \in BOOLEAN, charts \in ChartLists :
       IF err
         THEN /\ ret' = ErrGettingChangedCharts /\ pc' = "done"
              /\ failed' = failed \cup {"GetChangedCharts"}
              /\ UNCHANGED changedCharts
         ELSE /\ changedCharts' = charts
              /\ IF Len(charts) = 0
                   THEN ret' = "nil" /\ pc' = "done"
                   ELSE pc' = "create" /\ UNCHANGED ret
              /\ UNCHANGED failed
  /\ called' = called \cup {"GetChangedCharts"}
  /\ UNCHANGED <<created, updates, idx, config, fetch, live, ej, results,
                 outcomes, allResults, chartResults, todo, posted, dyff, reporter, renders, cfgSource, wvars, xvars>>

\* CreateInProgressCheck with its error logged and the run going on
CreateInProgressCheck_ignoresError ==
  /\ pc = "create"
  /\ \E ok \in BOOLEAN :
       /\ created' = (IF ok THEN created + 1 ELSE created)
       /\ failed' = (IF ok THEN failed ELSE failed \cup {"CreateInProgressCheck"})
       /\ pc' = "chart" /\ idx' = 1 /\ UNCHANGED ret
  /\ called' = called \cup {"CreateInProgressCheck"}
  /\ UNCHANGED <<changedCharts, updates, config, fetch, live, ej, results,
                 outcomes, allResults, chartResults, todo, posted, dyff, reporter, renders, cfgSource, wvars, xvars>>

\* CreateInProgressCheck called once per changed chart
CreateInProgressCheck_perChart ==
  /\ pc = "create"
  /\ \E ok \in BOOLEAN :
       IF ok
         THEN /\ created' = created + Len(changedCharts)
              /\ pc' = "chart" /\ idx' = 1 /\ UNCHANGED <<ret, failed>>
         ELSE /\ ret' = ErrCreatingCheck /\ pc' = "done"
              /\ failed' = failed \cup {"CreateInProgressCheck"}
              /\ UNCHANGED <<created, idx>>
  /\ called' = called \cup {"CreateInProgressCheck"}
  /\ UNCHANGED <<changedCharts, updates, config, fetch, live, ej, results,
                 outcomes, allResults, chartResults, todo, posted, dyff, reporter, renders, cfgSource, wvars, xvars>>

\* s.reporter.CreateInProgressCheck; a failure aborts the run
CreateInProgressCheck ==
  /\ pc = "create"
  /\ \E ok \in BOOLEAN :
       IF ok
         THEN /\ created' = created + 1
              /\ pc' = "chart" /\ idx' = 1 /\ UNCHANGED <<ret, failed>>
         ELSE /\ ret' = ErrCreatingCheck /\ pc' = "done"
              /\ failed' = failed \cup {"CreateInProgressCheck"}
              /\ UNCHANGED <<created, idx>>
  /\ called' = called \cup {"CreateInProgressCheck"}
  /\ UNCHANGED <<changedCharts, updates, config, fetch, live, ej, results,
                 outcomes, allResults, chartResults, todo, posted, dyff, reporter, renders, cfgSource, wvars, xvars>>

\* ResolveChart leaving the loop over the charts at the first failure
ResolveChart_stopsAtFailure ==
  /\ pc = "chart"
  /\ idx <= Len(changedCharts)
  /\ LET chart == changedCharts[idx]
     IN \E argo \in ArgoAnswers(chart.Name), fs \in FsAnswers(chart.Name) :
          LET r == getChartConfig(chart.Name, argo, fs)
          IN IF r.err
               THEN /\ outcomes' = Append(outcomes, [skipped |-> TRUE, results |-> <<>>])
                    /\ idx' = idx + 1
                    /\ pc' = "update"
                    /\ UNCHANGED <<config, fetch, cfgSource>>
               ELSE /\ config' = r.config
                    /\ cfgSource' = r.from
                    /\ fetch' = NoFetch
                    /\ pc' = "fetchBase"
                    /\ UNCHANGED <<outcomes, idx>>
  /\ called' = called \cup {"GetEnvironmentConfig"}
  /\ UNCHANGED <<ret, changedCharts, created, updates, live, ej, results,
                 allResults, chartResults, todo, posted, dyff, reporter, failed, renders, wvars, xvars>>

\* one iteration of the loop up to the call of processChart: getChartConfig,
\* and on its error the log line and continue
ResolveChart ==
  /\ pc = "chart"
  /\ idx <= Len(changedCharts)
  /\ LET chart == changedCharts[idx]
     IN \E argo \in ArgoAnswers(chart.Name), fs \in FsAnswers(chart.Name) :
          LET r == getChartConfig(chart.Name, argo, fs)
          IN IF r.err
               THEN /\ outcomes' = Append(outcomes, [skipped |-> TRUE, results |-> <<>>])
                    /\ idx' = idx + 1
                    /\ pc' = AfterChart(idx)
                    /\ UNCHANGED <<config, fetch, cfgSource>>
               ELSE /\ config' = r.config
                    /\ cfgSource' = r.from
                    /\ fetch' = NoFetch
                    /\ pc' = "fetchBase"
                    /\ UNCHANGED <<outcomes, idx>>
  /\ called' = called \cup {"GetEnvironmentConfig"}
  /\ UNCHANGED <<ret, changedCharts, created, updates, live, ej, results,
                 allResults, chartResults, todo, posted, dyff, reporter, failed, renders, wvars, xvars>>

\* the result of a failed fetch built without the text of the failure
FailedAll_noSummary(summary) ==
  <<DiffResult(extractChartNameFromPath(config.Path), "all", StatusError, "", "", "")>>
\* the one result processChart returns when a fetch fails
FailedAll(summary) ==
  <<DiffResult(extractChartNameFromPath(config.Path), "all", StatusError, "", "", summary)>>

\* processChart: fetch of the base ref
FetchBase ==
  /\ pc = "fetchBase"
  /\ \E r \in {"ok", "notfound", "err"} :
       /\ fetch' = [fetch EXCEPT !.base = r, !.baseCalls = @ + 1]
       /\ live' = IF r = "ok" THEN live + 1 ELSE live
       /\ IF r = "err"
            THEN results' = FailedAll("Error fetching base chart") /\ pc' = "return"
            ELSE results' = <<>> /\ pc' = "fetchHead"
  /\ called' = called \cup {"FetchChartFiles"}
  /\ UNCHANGED <<ret, changedCharts, created, updates, idx, config, ej,
                 outcomes, allResults, chartResults, todo, posted, dyff, reporter, failed, renders, cfgSource, wvars, xvars>>

\* processChart: fetch of the head ref
FetchHead ==
  /\ pc = "fetchHead"
  /\ \E r \in {"ok", "err"} :
       /\ fetch' = [fetch EXCEPT !.head = r, !.headCalls = @ + 1]
       /\ live' = IF r = "ok" THEN live + 1 ELSE live
       /\ IF r = "err"
            THEN results' = FailedAll("Error fetching head chart") /\ pc' = "return"
            ELSE /\ UNCHANGED results
                 /\ pc' = IF Len(config.Environments) = 0 THEN "return" ELSE "envs"
  /\ ej' = 1
  /\ called' = called \cup {"FetchChartFiles"}
  /\ UNCHANGED <<ret, changedCharts, created, updates, idx, config,
                 outcomes, allResults, chartResults, todo, posted, dyff, reporter, failed, renders, cfgSource, wvars, xvars>>

AfterEnv == IF ej + 1 > Len(config.Environments) THEN "return" ELSE "envs"

\* DiffEnvironment leaving the loop over the environments at the first failure
DiffEnvironment_stopsAtFailure ==
  /\ pc = "envs"
  /\ LET env == config.Environments[ej]
         chartName == extractChartNameFromPath(config.Path)
     IN IF env.Message # "" /\ Len(env.ValueFiles) = 0
          THEN /\ results' = Append(results,
                     DiffResult(chartName, env.Name, StatusSuccess, "", "", env.Message))
               /\ pc' = AfterEnv
               /\ renders' = NoRenders
               /\ UNCHANGED called
          ELSE \E rb \in RenderAnswers, rh \in RenderAnswers, dyffRuns \in dyff :
                 LET d == diffChartEnv(chartName, fetch.base = "ok", env, rb, rh, dyffRuns, FALSE)
                 IN /\ results' = Append(results,
                         IF d.err
                           THEN DiffResult(chartName, env.Name, StatusError, "", "", d.msg)
                           ELSE d.result)
                    /\ pc' = (IF d.err THEN "return" ELSE AfterEnv)
                    /\ renders' = d.renders
                    /\ called' = called \cup {"Render"}
                                   \cup (IF d.err THEN {} ELSE {"ComputeDiff"})
  /\ ej' = ej + 1
  /\ UNCHANGED <<ret, changedCharts, created, updates, idx, config, fetch, live,
                 outcomes, allResults, chartResults, todo, posted, dyff, reporter, failed, cfgSource, wvars, xvars>>

\* DiffEnvironment putting each result in front of the earlier ones
DiffEnvironment_prepends ==
  /\ pc = "envs"
  /\ LET env == config.Environments[ej]
         chartName == extractChartNameFromPath(config.Path)
     IN IF env.Message # "" /\ Len(env.ValueFiles) = 0
          THEN /\ results' = <<DiffResult(chartName, env.Name, StatusSuccess, "", "", env.Message)>> \o results
               /\ renders' = NoRenders
               /\ UNCHANGED called
          ELSE \E rb \in RenderAnswers, rh \in RenderAnswers, dyffRuns \in dyff :
                 LET d == diffChartEnv(chartName, fetch.base = "ok", env, rb, rh, dyffRuns, FALSE)
                 IN /\ results' =
                         <<IF d.err
                            THEN DiffResult(chartName, env.Name, StatusError, "", "", d.msg)
                            ELSE d.result>> \o results
                    /\ renders' = d.renders
                    /\ called' = called \cup {"Render"}
                                   \cup (IF d.err THEN {} ELSE {"ComputeDiff"})
  /\ ej' = ej + 1
  /\ pc' = AfterEnv
  /\ UNCHANGED <<ret, changedCharts, created, updates, idx, config, fetch, live,
                 outcomes, allResults, chartResults, todo, posted, dyff, reporter, failed, cfgSource, wvars, xvars>>

\* the loop over the environments fetching both refs again in every iteration
DiffEnvironment_fetchesPerEnv ==
  /\ pc = "envs"
  /\ LET env == config.Environments[ej]
         chartName == extractChartNameFromPath(config.Path)
     IN IF env.Message # "" /\ Len(env.ValueFiles) = 0
          THEN /\ results' = Append(results,
                     DiffResult(chartName, env.Name, StatusSuccess, "", "", env.Message))
               /\ renders' = NoRenders
               /\ UNCHANGED called
          ELSE \E rb \in RenderAnswers, rh \in RenderAnswers, dyffRuns \in dyff :
                 LET d == diffChartEnv(chartName, fetch.base = "ok", env, rb, rh, dyffRuns, FALSE)
                 IN /\ results' = Append(results,
                         IF d.err
                           THEN DiffResult(chartName, env.Name, StatusError, "", "", d.msg)
                           ELSE d.result)
                    /\ renders' = d.renders
                    /\ called' = called \cup {"Render"}
                                   \cup (IF d.err THEN {} ELSE {"ComputeDiff"})
  /\ ej' = ej + 1
  /\ fetch' = [fetch EXCEPT !.baseCalls = @ + 1, !.headCalls = @ + 1]
  /\ pc' = AfterEnv
  /\ UNCHANGED <<ret, changedCharts, created, updates, idx, config, live,
                 outcomes, allResults, chartResults, todo, posted, dyff, reporter, failed, cfgSource, wvars, xvars>>

\* processChart: one iteration of the loop over the environments
DiffEnvironment ==
  /\ pc = "envs"
  /\ LET env == config.Environments[ej]
         chartName == extractChartNameFromPath(config.Path)
     IN IF env.Message # "" /\ Len(env.ValueFiles) = 0
          THEN /\ results' = Append(results,
                     DiffResult(chartName, env.Name, StatusSuccess, "", "", env.Message))
               /\ renders' = NoRenders
               /\ UNCHANGED called
          ELSE \E rb \in RenderAnswers, rh \in RenderAnswers, dyffRuns \in dyff :
                 LET d == diffChartEnv(chartName, fetch.base = "ok", env, rb, rh, dyffRuns, FALSE)
                 IN /\ results' = Append(results,
                         IF d.err
                           THEN DiffResult(chartName, env.Name, StatusError, "", "", d.msg)
                           ELSE d.result)
                    /\ renders' = d.renders
                    /\ called' = called \cup {"Render"}
                                   \cup (IF d.err THEN {} ELSE {"ComputeDiff"})
  /\ ej' = ej + 1
  /\ pc' = AfterEnv
  /\ UNCHANGED <<ret, changedCharts, created, updates, idx, config, fetch, live,
                 outcomes, allResults, chartResults, todo, posted, dyff, reporter, failed, cfgSource, wvars, xvars>>

\* the cleanups processChart has deferred by the time it returns: the base
\* one after a base fetch that did not fail (a no-op when the chart was not
\* found), the head one after a head fetch that succeeded
Deferred(f) ==
  [base |-> IF f.base = "ok" THEN 1 ELSE 0, head |-> IF f.head = "ok" THEN 1 ELSE 0]

\* the base cleanup deferred only once the head fetch has succeeded
RunDeferred_afterBothFetches ==
  /\ pc = "return"
  /\ live' = IF fetch.head = "ok" THEN live - Deferred(fetch).head - Deferred(fetch).base
             ELSE live
  /\ pc' = "returned"
  /\ UNCHANGED <<ret, changedCharts, created, updates, idx, config, fetch, ej, results,
                 outcomes, allResults, chartResults, todo, posted, called, dyff, reporter, failed,
                 renders, cfgSource, wvars, xvars>>

\* processChart returns: its deferred cleanups run, last deferred first
RunDeferred ==
  /\ pc = "return"
  /\ live' = live - Deferred(fetch).head - Deferred(fetch).base
  /\ pc' = "returned"
  /\ UNCHANGED <<ret, changedCharts, created, updates, idx, config, fetch, ej, results,
                 outcomes, allResults, chartResults, todo, posted, called, dyff, reporter, failed,
                 renders, cfgSource, wvars, xvars>>

\* Execute updating the check with the results of each chart as it returns
ProcessChartReturn_updatesCheck ==
  /\ pc = "returned"
  /\ UNCHANGED live
  /\ outcomes' = Append(outcomes, [skipped |-> FALSE, results |-> results])
  /\ allResults' = allResults \o results
  /\ chartResults' = Upd(chartResults, changedCharts[idx].Name, results)
  /\ updates' = Append(updates, results)
  /\ idx' = idx + 1
  /\ pc' = AfterChart(idx)
  /\ config' = NoConfig /\ fetch' = NoFetch /\ ej' = 0 /\ results' = <<>>
  /\ renders' = NoRenders
  /\ cfgSource' = NoSource
  /\ UNCHANGED <<ret, changedCharts, created, todo, posted, called, dyff, reporter, failed, wvars, xvars>>

\* Execute records the results processChart returned under the chart's name
ProcessChartReturn ==
  /\ pc = "returned"
  /\ UNCHANGED live
  /\ outcomes' = Append(outcomes, [skipped |-> FALSE, results |-> results])
  /\ allResults' = allResults \o results
  /\ chartResults' = Upd(chartResults, changedCharts[idx].Name, results)
  /\ idx' = idx + 1
  /\ pc' = AfterChart(idx)
  /\ config' = NoConfig /\ fetch' = NoFetch /\ ej' = 0 /\ results' = <<>>
  /\ renders' = NoRenders
  /\ cfgSource' = NoSource
  /\ UNCHANGED <<ret, changedCharts, created, updates, todo, posted, called, dyff, reporter, failed, wvars, xvars>>

\* s.reporter.UpdateCheckWithResults; the adapter returns an error without
\* a request when it is given no results, else the error of the request; an
\* error is only logged
UpdateCheckWithResults ==
  /\ pc = "update"
  /\ \E ok \in reporter :
       /\ updates' = Append(updates, allResults)
       /\ failed' = (IF ok /\ Len(allResults) # 0 THEN failed
                     ELSE failed \cup {"UpdateCheckWithResults"})
  /\ todo' = DOMAIN chartResults
  /\ pc' = "comments"
  /\ called' = called \cup {"UpdateCheckWithResults"}
  /\ UNCHANGED <<ret, changedCharts, created, idx, config, fetch, live, ej,
                 results, outcomes, allResults, chartResults, posted, dyff, reporter, renders, cfgSource, wvars, xvars>>

\* Execute returning the error of the first PostComment that fails
PostComment_returnsError(chartName) ==
  /\ pc = "comments"
  /\ chartName \in todo
  /\ hasChanges(chartResults[chartName])
  /\ \E ok \in reporter :
       /\ posted' = posted \cup {chartName}
       /\ failed' = (IF ok THEN failed ELSE failed \cup {"PostComment"})
       /\ todo' = (IF ok THEN todo \ {chartName} ELSE {})
       /\ pc' = (IF ok THEN pc ELSE "done")
       /\ ret' = (IF ok THEN ret ELSE "posting comment")
  /\ called' = called \cup {"PostComment"}
  /\ UNCHANGED <<changedCharts, created, updates, idx, config, fetch, live,
                 ej, results, outcomes, allResults, chartResults, dyff, reporter, renders, cfgSource, wvars, xvars>>

\* the range over chartResults visits the keys in any order: a chart with
\* changes has PostComment called (an error is only logged)
PostComment(chartName) ==
  /\ pc = "comments"
  /\ chartName \in todo
  /\ hasChanges(chartResults[chartName])
  /\ \E ok \in reporter :
       /\ posted' = posted \cup {chartName}
       /\ failed' = (IF ok THEN failed ELSE failed \cup {"PostComment"})
  /\ todo' = todo \ {chartName}
  /\ called' = called \cup {"PostComment"}
  /\ UNCHANGED <<pc, ret, changedCharts, created, updates, idx, config, fetch, live,
                 ej, results, outcomes, allResults, chartResults, dyff, reporter, renders, cfgSource, wvars, xvars>>

\* ... and a chart without changes is passed over
SkipComment(chartName) ==
  /\ pc = "comments"
  /\ chartName \in todo
  /\ ~hasChanges(chartResults[chartName])
  /\ todo' = todo \ {chartName}
  /\ UNCHANGED <<pc, ret, changedCharts, created, updates, idx, config, fetch, live,
                 ej, results, outcomes, allResults, chartResults, posted, called, dyff, reporter, failed, renders, cfgSource, wvars, xvars>>

\* return nil at the end of Execute
ExecuteDone ==
  /\ pc = "comments"
  /\ todo = {}
  /\ ret' = "nil"
  /\ pc' = "done"
  /\ UNCHANGED <<changedCharts, created, updates, idx, config, fetch, live, ej,
                 results, outcomes, allResults, chartResults, todo, posted, called, dyff, reporter, failed, renders, cfgSource, wvars, xvars>>

\* the orchestrator before Execute is called
ExecIdle ==
  /\ ret = "none"
  /\ changedCharts = <<>>
  /\ created = 0
  /\ updates = <<>>
  /\ idx = 0
  /\ config = NoConfig
  /\ fetch = NoFetch
  /\ live = 0
  /\ ej = 0
  /\ results = <<>>
  /\ outcomes = <<>>
  /\ allResults = <<>>
  /\ chartResults = <<>>
  /\ todo = {}
  /\ posted = {}
  /\ called = {}
  /\ failed = {}
  /\ renders = NoRenders
  /\ cfgSource = NoSource

\* no fan-out in progress
WorkersIdle ==
  /\ envCap = 0
  /\ wk = <<>>

\* --- the Argo index and the mirror it is built from
EmptyIndex == <<>>
IdleReader == [st |-> "idle", chart |-> "", got |-> ChartConfig(<<>>, <<>>), during |-> ""]

\* no mirror and no Argo adapter
IndexIdle ==
  /\ mirror = {}
  /\ index = EmptyIndex
  /\ gpc = "off"
  /\ rmu = "free"
  /\ building = EmptyIndex
  /\ walked = 0
  /\ rd = <<>>
  /\ cycles = 0
  /\ walks = 0
  /\ before = [index |-> EmptyIndex, walks |-> 0, pull |-> "none"]

\* no function called on its own
NoCall == [fn |-> "none"]
FuncIdle == call = NoCall /\ retv = NoCall

\* a pull request without comments of the app
CommentsIdle ==
  /\ comments = <<>>
  /\ posts = <<>>
  /\ posting = [chartName |-> "none", listed |-> FALSE, deletedAll |-> FALSE, posted |-> FALSE]
  /\ poster = <<>>


WebhookIdle ==
  /\ nextReq = 1
  /\ lastIn = [id |-> 0, sig |-> FALSE, parse |-> FALSE, event |-> "push", action |-> "closed"]
  /\ resp = <<>>
  /\ task = <<>>
  /\ sem = 0

\* NewWebhookHandler: an empty semaphore, no request seen
InitWebhook == WebhookIdle /\ ExecIdle /\ (WorkersIdle /\ IndexIdle /\ FuncIdle /\ CommentsIdle) /\ pc = "idle" /\ dyff = {TRUE} /\ reporter = {TRUE}

NextWebhook ==
  \/ \E in \in RequestInputs : ServeHTTP(in)
  \/ \E r \in 1..MaxReq : WriteAccepted(r)
  \/ \E r \in 1..MaxReq : Acquire(r)
  \/ \E r \in 1..MaxReq : ExecuteReturn(r)

SpecWebhook == InitWebhook /\ [][NextWebhook]_vars

\* the handler on the deliveries that are accepted: pull_request events with
\* a valid signature, a payload that parses and an action that is diffed
NextAccepted ==
  \/ \E in \in {in \in RequestInputs : ResponseFor(in) = 0} : ServeHTTP(in)
  \/ \E r \in 1..MaxReq : WriteAccepted(r)
  \/ \E r \in 1..MaxReq : Acquire(r)
  \/ \E r \in 1..MaxReq : ExecuteReturn(r)

\* the handler when every run of the orchestrator terminates (weak fairness
\* of ExecuteReturn) and a goroutine blocked in the send on h.sem gets a
\* slot that keeps coming free: the runtime queues blocked senders of a
\* channel first in, first out (strong fairness of Acquire)
SpecWebhookFair ==
  /\ InitWebhook
  /\ [][NextAccepted]_vars
  /\ \A r \in 1..MaxReq : WF_vars(ExecuteReturn(r)) /\ SF_vars(Acquire(r))

\* one call of Execute, on a host where dyff is installed and runs
InitExec == WebhookIdle /\ ExecIdle /\ (WorkersIdle /\ IndexIdle /\ FuncIdle /\ CommentsIdle) /\ pc = "start" /\ dyff = {TRUE} /\ reporter = {TRUE}

NextExec ==
  \/ GetChangedCharts
  \/ CreateInProgressCheck
  \/ ResolveChart
  \/ FetchBase
  \/ FetchHead
  \/ DiffEnvironment
  \/ RunDeferred
  \/ ProcessChartReturn
  \/ UpdateCheckWithResults
  \/ \E n \in DOMAIN chartResults : PostComment(n)
  \/ \E n \in DOMAIN chartResults : SkipComment(n)
  \/ ExecuteDone

SpecExec == InitExec /\ [][NextExec]_vars

\* --- one call of processChart, as the tests of the package make it: the
\* environments are named by position and each has value files, nothing
\* at all, or a message and no value files
EnvNamePool == <<"prod", "dev", "staging", "qa", "sbx">>

EnvKinds(name) ==
  {EnvironmentConfig(name, <<"env/" \o name \o "-values.yaml">>, ""),
   EnvironmentConfig(name, <<>>, ""),
   EnvironmentConfig(name, <<>>, "not deployed")}


\* Execute at its call of processChart for the only changed chart of a run
InitChart ==
  /\ WebhookIdle
  /\ (WorkersIdle /\ IndexIdle /\ FuncIdle /\ CommentsIdle)
  /\ pc = "fetchBase"
  /\ ret = "none"
  /\ changedCharts = <<ChangedChart("app-a", <<"charts", "app-a">>)>>
  /\ created = 1
  /\ updates = <<>>
  /\ idx = 1
  /\ config \in {ChartConfig(<<"charts", "app-a">>, envs) : envs \in (UNION {{envs \in [1..n -> UNION {EnvKinds(EnvNamePool[k]) : k \in 1..n}] : \A k \in 1..n : envs[k] \in EnvKinds(EnvNamePool[k])} : n \in 0..MaxEnvs})}
  /\ fetch = NoFetch
  /\ live = 0
  /\ ej = 0
  /\ results = <<>>
  /\ outcomes = <<>>
  /\ allResults = <<>>
  /\ chartResults = <<>>
  /\ todo = {}
  /\ posted = {}
  /\ called = {"GetChangedCharts", "CreateInProgressCheck", "GetEnvironmentConfig"}
  /\ failed = {}
  /\ renders = NoRenders
  /\ cfgSource = NoSource
  /\ dyff = BOOLEAN
  /\ reporter = {TRUE}

NextChart ==
  \/ FetchBase
  \/ FetchHead
  \/ DiffEnvironment
  \/ RunDeferred
  \/ ProcessChartReturn

SpecChart == InitChart /\ [][NextChart]_vars

\* --- processChart fanning out: one worker per environment, at most
\* maxEnvConcurrency of them at once, each rendering base then head and
\* writing the slot of its own environment

NoRender == [err |-> FALSE, manifest |-> ""]

Active == {i \in DOMAIN wk : wk[i].st \in {"base", "head"}}

\* a worker starting whatever the number of workers at work
WorkerStart_uncapped(i) ==
  /\ pc = "fanout"
  /\ i \in DOMAIN wk
  /\ wk[i].st = "idle"
  /\ LET env == config.Environments[i]
         chartName == extractChartNameFromPath(config.Path)
     IN IF env.Message # "" /\ Len(env.ValueFiles) = 0
          THEN /\ results' = [results EXCEPT ![i] =
                     DiffResult(chartName, env.Name, StatusSuccess, "", "", env.Message)]
               /\ wk' = [wk EXCEPT ![i].st = "done"]
          ELSE /\ wk' = [wk EXCEPT ![i].st = IF fetch.base = "ok" THEN "base" ELSE "head"]
               /\ UNCHANGED results
  /\ UNCHANGED <<pc, ret, changedCharts, created, updates, idx, config, fetch, live, ej,
                 outcomes, allResults, chartResults, todo, posted, called, dyff, reporter, failed,
                 envCap, renders, cfgSource, wvars, ivars, fvars, cvars>>

\* a worker starting only when no other worker is at work
WorkerStart_oneAtATime(i) ==
  /\ pc = "fanout"
  /\ i \in DOMAIN wk
  /\ wk[i].st = "idle"
  /\ Active = {}
  /\ LET env == config.Environments[i]
         chartName == extractChartNameFromPath(config.Path)
     IN IF env.Message # "" /\ Len(env.ValueFiles) = 0
          THEN /\ results' = [results EXCEPT ![i] =
                     DiffResult(chartName, env.Name, StatusSuccess, "", "", env.Message)]
               /\ wk' = [wk EXCEPT ![i].st = "done"]
          ELSE /\ wk' = [wk EXCEPT ![i].st = IF fetch.base = "ok" THEN "base" ELSE "head"]
               /\ UNCHANGED results
  /\ UNCHANGED <<pc, ret, changedCharts, created, updates, idx, config, fetch, live, ej,
                 outcomes, allResults, chartResults, todo, posted, called, dyff, reporter, failed,
                 envCap, renders, cfgSource, wvars, ivars, fvars, cvars>>

\* a worker takes one of the maxEnvConcurrency places and starts on its environment
WorkerStart(i) ==
  /\ pc = "fanout"
  /\ i \in DOMAIN wk
  /\ wk[i].st = "idle"
  /\ Cardinality(Active) < envCap
  /\ LET env == config.Environments[i]
         chartName == extractChartNameFromPath(config.Path)
     IN IF env.Message # "" /\ Len(env.ValueFiles) = 0
          THEN /\ results' = [results EXCEPT ![i] =
                     DiffResult(chartName, env.Name, StatusSuccess, "", "", env.Message)]
               /\ wk' = [wk EXCEPT ![i].st = "done"]
          ELSE /\ wk' = [wk EXCEPT ![i].st = IF fetch.base = "ok" THEN "base" ELSE "head"]
               /\ UNCHANGED results
  /\ UNCHANGED <<pc, ret, changedCharts, created, updates, idx, config, fetch, live, ej,
                 outcomes, allResults, chartResults, todo, posted, called, dyff, reporter, failed,
                 envCap, renders, cfgSource, wvars, ivars, fvars, cvars>>

\* the worker's first blocking call: render of the base ref
WorkerRenderBase(i) ==
  /\ pc = "fanout"
  /\ i \in DOMAIN wk
  /\ wk[i].st = "base"
  /\ LET env == config.Environments[i]
         chartName == extractChartNameFromPath(config.Path)
     IN \E rb \in RenderAnswers :
          IF rb.err
            THEN /\ results' = [results EXCEPT ![i] =
                       DiffResult(chartName, env.Name, StatusError, "", "",
                                  "failed to render base branch")]
                 /\ wk' = [wk EXCEPT ![i].st = "done"]
            ELSE /\ wk' = [wk EXCEPT ![i] = [st |-> "head", rb |-> rb]]
                 /\ UNCHANGED results
  /\ called' = called \cup {"Render"}
  /\ UNCHANGED <<pc, ret, changedCharts, created, updates, idx, config, fetch, live, ej,
                 outcomes, allResults, chartResults, todo, posted, dyff, reporter, failed,
                 envCap, renders, cfgSource, wvars, ivars, fvars, cvars>>

\* the worker's second blocking call: render of the head ref, then the diff
\* and the write of the worker's own slot
WorkerRenderHead(i) ==
  /\ pc = "fanout"
  /\ i \in DOMAIN wk
  /\ wk[i].st = "head"
  /\ LET env == config.Environments[i]
         chartName == extractChartNameFromPath(config.Path)
     IN \E rh \in RenderAnswers, dyffRuns \in dyff :
          LET d == diffChartEnv(chartName, fetch.base = "ok", env, wk[i].rb, rh, dyffRuns, FALSE)
          IN /\ results' = [results EXCEPT ![i] =
                   IF d.err
                     THEN DiffResult(chartName, env.Name, StatusError, "", "", d.msg)
                     ELSE d.result]
             /\ called' = called \cup {"Render"} \cup (IF d.err THEN {} ELSE {"ComputeDiff"})
  /\ wk' = [wk EXCEPT ![i] = [st |-> "done", rb |-> NoRender]]
  /\ UNCHANGED <<pc, ret, changedCharts, created, updates, idx, config, fetch, live, ej,
                 outcomes, allResults, chartResults, todo, posted, dyff, reporter, failed,
                 envCap, renders, cfgSource, wvars, ivars, fvars, cvars>>

\* processChart waits for every worker and returns the slots
WorkersJoin ==
  /\ pc = "fanout"
  /\ \A i \in DOMAIN wk : wk[i].st = "done"
  /\ pc' = "return"
  /\ UNCHANGED <<ret, changedCharts, created, updates, idx, config, fetch, live, ej, results,
                 outcomes, allResults, chartResults, todo, posted, called, dyff, reporter, failed,
                 renders, cfgSource, wvars, xvars>>

\* processChart with both fetches behind it, at the start of the fan-out;
\* the environments are as the tests of processChart make them, each with
\* value files
InitWorkers ==
  /\ WebhookIdle
  /\ IndexIdle
  /\ FuncIdle
  /\ CommentsIdle
  /\ pc = "fanout"
  /\ ret = "none"
  /\ changedCharts = <<ChangedChart("app-a", <<"charts", "app-a">>)>>
  /\ created = 1
  /\ updates = <<>>
  /\ idx = 1
  /\ config \in {ChartConfig(<<"charts", "app-a">>, envs) : envs \in {[k \in 1..n |-> EnvironmentConfig(EnvNamePool[k], <<"env/" \o EnvNamePool[k] \o "-values.yaml">>, "")] : n \in 0..MaxEnvs}}
  /\ fetch \in {[base |-> b, head |-> "ok", baseCalls |-> 1, headCalls |-> 1] :
                  b \in {"ok", "notfound"}}
  /\ live = (IF fetch.base = "ok" THEN 2 ELSE 1)
  /\ ej = 0
  /\ results = [i \in 1..Len(config.Environments) |-> [ChartName |-> "", Environment |-> "", BaseRef |-> "", HeadRef |-> "", Status |-> StatusSuccess, UnifiedDiff |-> "", SemanticDiff |-> "", Summary |-> ""]]
  /\ outcomes = <<>>
  /\ allResults = <<>>
  /\ chartResults = <<>>
  /\ todo = {}
  /\ posted = {}
  /\ called = {"GetChangedCharts", "CreateInProgressCheck", "GetEnvironmentConfig",
               "FetchChartFiles"}
  /\ failed = {}
  /\ renders = NoRenders
  /\ cfgSource = NoSource
  /\ dyff = {TRUE} /\ reporter = {TRUE}
  /\ envCap \in (1..MaxEnvCap) \cup ({Len(config.Environments)} \ {0})
  /\ wk = [i \in 1..Len(config.Environments) |-> [st |-> "idle", rb |-> NoRender]]

NextWorkers ==
  \/ \E i \in 1..MaxEnvs : WorkerStart(i)
  \/ \E i \in 1..MaxEnvs : WorkerRenderBase(i)
  \/ \E i \in 1..MaxEnvs : WorkerRenderHead(i)
  \/ WorkersJoin

SpecWorkers == InitWorkers /\ [][NextWorkers]_vars

\* --- gitrepo.GitRepo keeping the mirror fresh and argo.Adapter rebuilding
\* its index after each successful pull, while lookups read the index
AppData(chartName, environment) ==
  [ChartName |-> chartName, ChartPath |-> <<"charts", chartName>>,
   Environment |-> environment, ValueFiles |-> <<"values-" \o environment \o ".yaml">>]

\* a YAML file of the mirror: the directory it lies in, relative to the root
\* of the clone, and what reading and unmarshalling it gives
RepoFile(dir, content) == [dir |-> dir, content |-> content]

\* the files a mirror can hold, in the order of filepath.Walk
AppFiles ==
  <<RepoFile(<<"app-a", "dev">>, "Application"),
    RepoFile(<<"app-a", "dev">>, "invalid yaml"),
    RepoFile(<<"app-a", "prod">>, "Application"),
    RepoFile(<<"app-b", "prod">>, "Application"),
    RepoFile(<<"app-b", "prod">>, "ConfigMap"),
    RepoFile(<<"app-b", "prod">>, "unreadable"),
    RepoFile(<<".">>, "Application")>>
\* the mirrors: any of the files that index (1, 3 and 4), and at most one of
\* the others
Repos == {good \cup bad : good \in SUBSET {1, 3, 4}, bad \in {{}} \cup {{k} : k \in {2, 5, 6, 7}}}

folderPattern == <<"{chartName}", "{envName}">>

\* the last position of pattern holding slot, 0 when there is none: the loop
\* over the pattern assigns at every match, so the last one stays
LastSlot(patternParts, slot) ==
  LET at == {i \in 1..Len(patternParts) : patternParts[i] = slot}
  IN IF at = {} THEN 0 ELSE CHOOSE i \in at : \A j \in at : j <= i

\* extractFromFolderStructure laying the pattern over the first components
\* of the path instead of the last
extractFromFolderStructure_fromRoot(patternParts, parts) ==
  IF Len(parts) < Len(patternParts)
    THEN [err |-> "path has fewer components than pattern", chartName |-> "", env |-> ""]
  ELSE
    LET c == LastSlot(patternParts, "{chartName}")
        e == LastSlot(patternParts, "{envName}")
        chartName == IF c = 0 THEN "" ELSE parts[c]
        env == IF e = 0 THEN "" ELSE parts[e]
    IN IF chartName = ""
         THEN [err |-> "could not extract chartName from path", chartName |-> "", env |-> ""]
       ELSE IF env = ""
         THEN [err |-> "could not extract envName from path", chartName |-> "", env |-> ""]
       ELSE [err |-> "", chartName |-> chartName, env |-> env]

\* extractFromFolderStructure on the components of the file's directory
extractFromFolderStructure(patternParts, parts) ==
  IF Len(parts) < Len(patternParts)
    THEN [err |-> "path has fewer components than pattern", chartName |-> "", env |-> ""]
  ELSE
    LET offset == Len(parts) - Len(patternParts)
        relevantParts == [i \in 1..Len(patternParts) |-> parts[offset + i]]
        c == LastSlot(patternParts, "{chartName}")
        e == LastSlot(patternParts, "{envName}")
        chartName == IF c = 0 THEN "" ELSE relevantParts[c]
        env == IF e = 0 THEN "" ELSE relevantParts[e]
    IN IF chartName = ""
         THEN [err |-> "could not extract chartName from path", chartName |-> "", env |-> ""]
       ELSE IF env = ""
         THEN [err |-> "could not extract envName from path", chartName |-> "", env |-> ""]
       ELSE [err |-> "", chartName |-> chartName, env |-> env]

\* parseArgoApp: an error for a file that cannot be read or unmarshalled,
\* ErrNotAnApplication for another kind of resource
parseArgoApp(file) ==
  IF file.content = "unreadable" THEN "read error"
  ELSE IF file.content = "invalid yaml" THEN "yaml error"
  ELSE IF file.content # "Application" THEN "not an Application"
  ELSE ""

\* processApplicationFile: the app to index, or shouldIndex false
processApplicationFile(file) ==
  IF parseArgoApp(file) # ""
    THEN [shouldIndex |-> FALSE, app |-> AppData("", "")]
  ELSE
    LET x == extractFromFolderStructure(folderPattern, file.dir)
    IN IF x.err # ""
         THEN [shouldIndex |-> FALSE, app |-> AppData("", "")]
         ELSE [shouldIndex |-> TRUE, app |-> AppData(x.chartName, x.env)]

\* index[app.ChartName] = append(index[app.ChartName], *app)
IndexFile(ix, app) ==
  Upd(ix, app.ChartName,
      Append(IF app.ChartName \in DOMAIN ix THEN ix[app.ChartName] ELSE <<>>, app))

\* the walk callback on one file: the app is indexed, or the file skipped
IndexStep(ix, file) ==
  LET r == processApplicationFile(file)
  IN IF r.shouldIndex THEN IndexFile(ix, r.app) ELSE ix

\* the map a whole walk of repo builds, from the file at position k on
RECURSIVE WalkFrom(_, _, _)
WalkFrom(repo, k, ix) ==
  IF k > Len(AppFiles) THEN ix
  ELSE WalkFrom(repo, k + 1, IF k \in repo THEN IndexStep(ix, AppFiles[k]) ELSE ix)
IndexOf(repo) == WalkFrom(repo, 1, EmptyIndex)

\* argo.Adapter.GetEnvironmentConfig on the map ix
GetEnvironmentConfig(ix, chartName) ==
  IF chartName \notin DOMAIN ix \/ Len(ix[chartName]) = 0
    THEN ChartConfig(<<"charts", chartName>>, <<>>)
    ELSE LET apps == ix[chartName]
         IN ChartConfig(apps[1].ChartPath,
                        [k \in 1..Len(apps) |->
                           EnvironmentConfig(apps[k].Environment, apps[k].ValueFiles, "")])

\* a.mu write-locked through the whole cycle, pull and walk included
WriteLocked_wholeCycle == gpc \in {"pull", "walk", "lock"}
\* a.mu.Lock() called by rebuildIndex and not yet unlocked: new RLock calls wait
WriteLocked == gpc = "lock"

Reading == {r \in DOMAIN rd : rd[r].st = "reading"}

\* GitRepo.Start: clone (or pull), then the callbacks
Start ==
  /\ gpc = "new"
  /\ rmu = "free"
  /\ \E ok \in BOOLEAN, repo \in Repos :
       IF ok
         THEN /\ mirror' = repo
              /\ gpc' = "walk"
              /\ rmu' = "Start"
              /\ building' = EmptyIndex /\ walked' = 0
              /\ walks' = walks + 1
              /\ before' = [index |-> index, walks |-> walks, pull |-> "ok"]
         ELSE /\ gpc' = "failed"
              /\ before' = [index |-> index, walks |-> walks, pull |-> "failed"]
              /\ UNCHANGED <<mirror, building, walked, walks, rmu>>
  /\ UNCHANGED <<index, rd, cycles, wvars, evars, kvars, fvars, cvars>>

\* Start after its callbacks: syncLoop is already spawned (go r.syncLoop) when
\* Start returns and its deferred r.mu.Unlock() runs
StartReturn ==
  /\ gpc = "idle"
  /\ rmu = "Start"
  /\ rmu' = "free"
  /\ UNCHANGED <<mirror, index, gpc, building, walked, rd, cycles, walks, before,
                 wvars, evars, kvars, fvars, cvars>>

\* sync beginning its cycle without r.mu
Tick_withoutMutex ==
  /\ gpc = "idle"
  /\ cycles < MaxSyncs
  /\ cycles' = cycles + 1
  /\ gpc' = "pull"
  /\ rmu' = "sync"
  /\ before' = [index |-> index, walks |-> walks, pull |-> "none"]
  /\ UNCHANGED <<mirror, index, building, walked, rd, walks, wvars, evars, kvars, fvars, cvars>>

\* syncLoop: the ticker fires and sync takes r.mu, once it is free
Tick ==
  /\ gpc = "idle"
  /\ rmu = "free"
  /\ cycles < MaxSyncs
  /\ cycles' = cycles + 1
  /\ gpc' = "pull"
  /\ rmu' = "sync"
  /\ before' = [index |-> index, walks |-> walks, pull |-> "none"]
  /\ UNCHANGED <<mirror, index, building, walked, rd, walks, wvars, evars, kvars, fvars, cvars>>

\* sync running the callbacks although pullRepo failed
Pull_callbacksAnyway ==
  /\ gpc = "pull"
  /\ \E ok \in BOOLEAN, repo \in Repos :
       /\ mirror' = IF ok THEN repo ELSE mirror
       /\ gpc' = "walk"
       /\ building' = EmptyIndex /\ walked' = 0
       /\ walks' = walks + 1
       /\ before' = [before EXCEPT !.pull = IF ok THEN "ok" ELSE "failed"]
  /\ UNCHANGED <<index, rd, cycles, rmu, wvars, evars, kvars, fvars, cvars>>

\* sync: pullRepo; on its error the cycle ends, else runCallbacks enters
\* rebuildIndex
Pull ==
  /\ gpc = "pull"
  /\ \E ok \in BOOLEAN, repo \in Repos :
       IF ok
         THEN /\ mirror' = repo
              /\ gpc' = "walk"
              /\ building' = EmptyIndex /\ walked' = 0
              /\ walks' = walks + 1
              /\ before' = [before EXCEPT !.pull = "ok"]
              /\ UNCHANGED rmu
         ELSE /\ gpc' = "idle"
              /\ rmu' = "free"
              /\ before' = [before EXCEPT !.pull = "failed"]
              /\ UNCHANGED <<mirror, building, walked, walks>>
  /\ UNCHANGED <<index, rd, cycles, wvars, evars, kvars, fvars, cvars>>

\* the files of the mirror the walk has not reached yet
Unwalked == {k \in mirror : k > walked}
NextFile == CHOOSE k \in Unwalked : \A j \in Unwalked : k <= j

\* rebuildIndex writing each app into a.index itself as the walk finds it
WalkFile_inPlace ==
  /\ gpc = "walk"
  /\ Unwalked # {}
  /\ index' = IndexStep(IF walked = 0 THEN EmptyIndex ELSE index, AppFiles[NextFile])
  /\ building' = IndexStep(building, AppFiles[NextFile])
  /\ walked' = NextFile
  /\ UNCHANGED <<mirror, gpc, rd, cycles, walks, before, rmu, wvars, evars, kvars, fvars, cvars>>

\* rebuildIndex whose walk callback returns the error of a file it cannot
\* index: the walk stops and rebuildIndex returns without the swap
WalkFile_stopsAtBadFile ==
  /\ gpc = "walk"
  /\ Unwalked # {}
  /\ IF processApplicationFile(AppFiles[NextFile]).shouldIndex
       THEN /\ building' = IndexFile(building, processApplicationFile(AppFiles[NextFile]).app)
            /\ walked' = NextFile
            /\ UNCHANGED gpc
       ELSE /\ building' = EmptyIndex
            /\ walked' = 0
            /\ gpc' = "idle"
  /\ rmu' = IF gpc' = "idle" /\ rmu = "sync" THEN "free" ELSE rmu
  /\ UNCHANGED <<mirror, index, rd, cycles, walks, before, wvars, evars, kvars, fvars, cvars>>

\* rebuildIndex: the walk reaches the next YAML file
WalkFile ==
  /\ gpc = "walk"
  /\ Unwalked # {}
  /\ building' = IndexStep(building, AppFiles[NextFile])
  /\ walked' = NextFile
  /\ UNCHANGED <<mirror, index, gpc, rd, cycles, walks, before, rmu, wvars, evars, kvars, fvars, cvars>>

\* rebuildIndex going on to the swap while files are still to be walked
WalkEnd_beforeWalkIsOver ==
  /\ gpc = "walk"
  /\ gpc' = "lock"
  /\ UNCHANGED <<mirror, index, building, walked, rd, cycles, walks, before,
                 rmu, wvars, evars, kvars, fvars, cvars>>

\* rebuildIndex: the walk is over and a.mu.Lock() is called
WalkEnd ==
  /\ gpc = "walk"
  /\ Unwalked = {}
  /\ gpc' = "lock"
  /\ UNCHANGED <<mirror, index, building, walked, rd, cycles, walks, before,
                 rmu, wvars, evars, kvars, fvars, cvars>>

\* rebuildIndex: the lock is granted once no lookup holds a.mu, the map is
\* swapped in and the lock released; the cycle ends, and sync returns and
\* releases r.mu (Start still has to spawn syncLoop and return)
Swap ==
  /\ gpc = "lock"
  /\ Reading = {}
  /\ index' = building
  /\ building' = EmptyIndex
  /\ walked' = 0
  /\ gpc' = "idle"
  /\ rmu' = IF rmu = "sync" THEN "free" ELSE rmu
  /\ UNCHANGED <<mirror, rd, cycles, walks, before, wvars, evars, kvars, fvars, cvars>>

\* GetEnvironmentConfig: RLock granted, a.index read for the chart
LookupBegin(r, chartName) ==
  /\ rd[r].st = "idle"
  /\ ~WriteLocked
  /\ rd' = [rd EXCEPT ![r] = [st |-> "reading", chart |-> chartName,
                              got |-> GetEnvironmentConfig(index, chartName),
                              during |-> gpc]]
  /\ UNCHANGED <<mirror, index, gpc, building, walked, cycles, walks, before,
                 rmu, wvars, evars, kvars, fvars, cvars>>

\* GetEnvironmentConfig returns; the deferred RUnlock runs
LookupEnd(r) ==
  /\ rd[r].st = "reading"
  /\ rd' = [rd EXCEPT ![r] = IdleReader]
  /\ UNCHANGED <<mirror, index, gpc, building, walked, cycles, walks, before,
                 rmu, wvars, evars, kvars, fvars, cvars>>

\* argo.New on a GitRepo that has not been started
InitIndex ==
  /\ WebhookIdle
  /\ ExecIdle /\ pc = "idle" /\ dyff = {TRUE} /\ reporter = {TRUE}
  /\ WorkersIdle
  /\ FuncIdle
  /\ CommentsIdle
  /\ mirror = {}
  /\ index = EmptyIndex
  /\ gpc = "new"
  /\ building = EmptyIndex
  /\ walked = 0
  /\ rd = [r \in 1..MaxReaders |-> IdleReader]
  /\ cycles = 0
  /\ walks = 0
  /\ before = [index |-> EmptyIndex, walks |-> 0, pull |-> "none"]
  /\ rmu = "free"

NextIndex ==
  \/ Start
  \/ StartReturn
  \/ Tick
  \/ Pull
  \/ WalkFile
  \/ WalkEnd
  \/ Swap
  \/ \E r \in 1..MaxReaders, chartName \in {"app-a", "app-b"} : LookupBegin(r, chartName)
  \/ \E r \in 1..MaxReaders : LookupEnd(r)

SpecIndex == InitIndex /\ [][NextIndex]_vars

\* the cycles with one goroutine looking a chart up
NextCycle ==
  \/ Start
  \/ StartReturn
  \/ Tick
  \/ Pull
  \/ WalkFile
  \/ WalkEnd
  \/ Swap
  \/ LookupBegin(1, "app-a")
  \/ LookupEnd(1)

\* the cycles when the goroutine of a cycle keeps running (pull, walk and
\* the call of Lock are weakly fair) and every lookup returns: Lock of a
\* sync.RWMutex keeps new readers out, so it is granted once the lookups in
\* progress have returned
SpecIndexFair ==
  /\ InitIndex
  /\ [][NextCycle]_vars
  /\ WF_vars(Pull) /\ WF_vars(WalkFile) /\ WF_vars(WalkEnd) /\ WF_vars(Swap)
  /\ WF_vars(LookupEnd(1))

\* --- extractFromFolderStructure called on its own
RECURSIVE SeqsUpTo(_, _)
SeqsUpTo(S, n) ==
  IF n = 0 THEN {<<>>}
  ELSE LET shorter == SeqsUpTo(S, n - 1)
       IN shorter \cup {Append(q, x) : q \in {t \in shorter : Len(t) = n - 1}, x \in S}


\* a manifest path and an adapter's folder pattern
InitExtract ==
  /\ WebhookIdle
  /\ ExecIdle /\ pc = "idle" /\ dyff = {TRUE} /\ reporter = {TRUE}
  /\ WorkersIdle
  /\ IndexIdle
  /\ CommentsIdle
  /\ call \in {[fn |-> "extractFromFolderStructure", patternParts |-> q, parts |-> d] :
                 q \in (SeqsUpTo(({"{chartName}", "{envName}", "apps"}), MaxDepth) \ {<<>>}), d \in (SeqsUpTo({"my-app", "prod", "."}, MaxDepth) \ {<<>>})}
  /\ retv = NoCall

Extract ==
  /\ call.fn = "extractFromFolderStructure"
  /\ retv = NoCall
  /\ retv' = [fn |-> call.fn] @@ extractFromFolderStructure(call.patternParts, call.parts)
  /\ UNCHANGED <<call, wvars, evars, kvars, ivars, cvars>>


SpecExtract == InitExtract /\ [][Extract]_vars

\* --- getChartConfig called on its own: a chart name and what each of the
\* two sources answers when it is asked
InitResolve ==
  /\ WebhookIdle
  /\ ExecIdle /\ pc = "idle" /\ dyff = {TRUE} /\ reporter = {TRUE}
  /\ WorkersIdle
  /\ IndexIdle
  /\ CommentsIdle
  /\ call \in UNION {[fn : {"getChartConfig"}, chartName : {AllChartNames[k]},
                       argo : ArgoAnswers(AllChartNames[k]), fs : FsAnswers(AllChartNames[k])]
                        : k \in 1..MaxCharts + 1}
  /\ retv = NoCall

Resolve ==
  /\ call.fn = "getChartConfig"
  /\ retv = NoCall
  /\ retv' = [fn |-> call.fn] @@ getChartConfig(call.chartName, call.argo, call.fs)
  /\ UNCHANGED <<call, wvars, evars, kvars, ivars, cvars>>

SpecResolve == InitResolve /\ [][Resolve]_vars

\* --- diffChartEnv called on its own: what the two renders answer and what
\* the two differs meet
InitDiff ==
  /\ WebhookIdle
  /\ ExecIdle /\ pc = "idle" /\ dyff = {TRUE} /\ reporter = {TRUE}
  /\ WorkersIdle
  /\ IndexIdle
  /\ CommentsIdle
  /\ call \in [fn : {"diffChartEnv"}, chartName : {"app-a"}, baseExists : BOOLEAN,
               rb : RenderAnswers, rh : RenderAnswers, dyffRuns : BOOLEAN, difflibErr : BOOLEAN]
  /\ retv = NoCall

Diff ==
  /\ call.fn = "diffChartEnv"
  /\ retv = NoCall
  /\ retv' = [fn |-> call.fn] @@ diffChartEnv(call.chartName, call.baseExists, ArgoEnvs[1],
                                              call.rb, call.rh, call.dyffRuns, call.difflibErr)
  /\ UNCHANGED <<call, wvars, evars, kvars, ivars, cvars>>

SpecDiff == InitDiff /\ [][Diff]_vars

\* --- the reporter posting the comment of a chart on the pull request
Comment(id, chartName) == [id |-> id, marker |-> chartName]
Matching(chartName) == {i \in DOMAIN comments : comments[i].marker = chartName}
Calls == IF DOMAIN posts = {} THEN 0
         ELSE LET n[S \in SUBSET DOMAIN posts] ==
                    IF S = {} THEN 0
                    ELSE LET c == CHOOSE x \in S : TRUE IN posts[c].calls + n[S \ {c}]
              IN n[DOMAIN posts]
PostsOf(chartName) ==
  IF chartName \in DOMAIN posts THEN posts[chartName] ELSE [calls |-> 0, ok |-> 0]

\* Adapter.PostComment for a chart with results: deleteMatchingComments
\* (nothing is deleted when the listing fails, and a comment whose deletion
\* fails stays), then CreateComment with the body that starts with the marker
PostCommentOf_appendsOnly(chartName) ==
  /\ Calls < MaxPosts
  /\ \E createOk \in BOOLEAN :
       /\ LET NextId == IF comments = <<>> THEN 1 ELSE comments[Len(comments)].id + 1
          IN comments' = IF createOk THEN Append(comments, Comment(NextId, chartName))
                         ELSE comments
       /\ posts' = Upd(posts, chartName,
                       [calls |-> PostsOf(chartName).calls + 1,
                        ok |-> PostsOf(chartName).ok + (IF createOk THEN 1 ELSE 0)])
       /\ posting' = [chartName |-> chartName, listed |-> TRUE,
                      deletedAll |-> TRUE, posted |-> createOk]
  /\ UNCHANGED <<poster, wvars, evars, kvars, ivars, fvars>>

PostCommentOf(chartName) ==
  /\ Calls < MaxPosts
  /\ \E listOk \in BOOLEAN, deleted \in SUBSET Matching(chartName), createOk \in BOOLEAN :
       /\ ~listOk => deleted = {}
       /\ LET F[i \in 0..Len(comments)] ==
                IF i = 0 THEN <<>>
                ELSE IF i \in deleted THEN F[i - 1] ELSE Append(F[i - 1], comments[i])
              kept == F[Len(comments)]
              NextId == IF comments = <<>> THEN 1 ELSE comments[Len(comments)].id + 1
          IN comments' = IF createOk THEN Append(kept, Comment(NextId, chartName)) ELSE kept
       /\ posts' = Upd(posts, chartName,
                       [calls |-> PostsOf(chartName).calls + 1,
                        ok |-> PostsOf(chartName).ok + (IF createOk THEN 1 ELSE 0)])
       /\ posting' = [chartName |-> chartName, listed |-> listOk,
                      deletedAll |-> listOk /\ deleted = Matching(chartName),
                      posted |-> createOk]
  /\ UNCHANGED <<poster, wvars, evars, kvars, ivars, fvars>>

InitComments ==
  /\ WebhookIdle
  /\ ExecIdle /\ pc = "idle" /\ dyff = {TRUE} /\ reporter = {TRUE}
  /\ WorkersIdle
  /\ IndexIdle
  /\ FuncIdle
  /\ comments = <<>>
  /\ posts = <<>>
  /\ posting = [chartName |-> "none", listed |-> FALSE, deletedAll |-> FALSE, posted |-> FALSE]
  /\ poster = <<>>

NextComments == \E chartName \in {"app-a", "app-b"} : PostCommentOf(chartName)

SpecComments == InitComments /\ [][NextComments]_vars

\* --- runs of Execute that hold a slot of the handler at the same time and
\* post the comment of a chart on one pull request; every request to the API
\* succeeds. The ids of comments are never given twice.
FreshId ==
  LET used == {comments[i].id : i \in DOMAIN comments}
                \cup UNION {poster[r].seen : r \in DOMAIN poster}
  IN IF used = {} THEN 1 ELSE 1 + CHOOSE m \in used : \A u \in used : u <= m

\* deleteMatchingComments: client.Issues.ListComments, and the comments
\* with the marker found in the answer
ListComments(r) ==
  /\ poster[r].st = "start"
  /\ poster' = [poster EXCEPT ![r].st = "listed",
                              ![r].seen = {comments[i].id : i \in Matching(poster[r].chart)}]
  /\ UNCHANGED <<comments, posts, posting, wvars, evars, kvars, ivars, fvars>>

\* deleteMatchingComments: DeleteComment for the next comment of the list
\* (one that is gone already gives an error, which is logged)
DeleteComment(r) ==
  /\ poster[r].st = "listed"
  /\ poster[r].seen # {}
  /\ LET id == CHOOSE c \in poster[r].seen : \A d \in poster[r].seen : c <= d
         F[i \in 0..Len(comments)] ==
           IF i = 0 THEN <<>>
           ELSE IF comments[i].id = id THEN F[i - 1] ELSE Append(F[i - 1], comments[i])
     IN /\ comments' = F[Len(comments)]
        /\ poster' = [poster EXCEPT ![r].seen = @ \ {id}]
  /\ UNCHANGED <<posts, posting, wvars, evars, kvars, ivars, fvars>>

\* PostComment after deleteMatchingComments: client.Issues.CreateComment
CreateComment(r) ==
  /\ poster[r].st = "listed"
  /\ poster[r].seen = {}
  /\ comments' = Append(comments, Comment(FreshId, poster[r].chart))
  /\ poster' = [poster EXCEPT ![r].st = "done"]
  /\ UNCHANGED <<posts, posting, wvars, evars, kvars, ivars, fvars>>

\* the pull request with the comments earlier runs left, if any, and the
\* runs at their call of PostComment, each for a chart with changes
InitPosters ==
  /\ WebhookIdle
  /\ ExecIdle /\ pc = "idle" /\ dyff = {TRUE} /\ reporter = {TRUE}
  /\ WorkersIdle
  /\ IndexIdle
  /\ FuncIdle
  /\ comments \in UNION {{[i \in 1..n |-> Comment(i, m[i])] : m \in [1..n -> {"app-a", "app-b"}]}
                          : n \in 0..MaxPosters}
  /\ posts = <<>>
  /\ posting = [chartName |-> "none", listed |-> FALSE, deletedAll |-> FALSE, posted |-> FALSE]
  /\ poster \in [1..MaxPosters -> [st : {"start"}, chart : {"app-a", "app-b"}, seen : {{}}]]

NextPosters ==
  \/ \E r \in 1..MaxPosters : ListComments(r)
  \/ \E r \in 1..MaxPosters : DeleteComment(r)
  \/ \E r \in 1..MaxPosters : CreateComment(r)

SpecPosters == InitPosters /\ [][NextPosters]_vars

\* --- the report of a run: the text of the check run
maxCheckRunTextLen == 65535
truncMsg == "\n\n... (output truncated)"

\* A text is a sequence of runs of runes: n runes of w bytes each, s telling
\* what they are.  len(text) of the code is the number of bytes.  (A
\* backquote of the code's literals is written as a quote.)
RuneRun(w, n, s) == [w |-> w, n |-> n, s |-> s]
Lit(str) == IF str = "" THEN <<>> ELSE <<RuneRun(1, Len(str), str)>>
Fill(w, n) == IF n = 0 THEN <<>> ELSE <<RuneRun(w, n, "diff")>>

RECURSIVE ByteLen(_)
ByteLen(text) == IF text = <<>> THEN 0 ELSE Head(text).w * Head(text).n + ByteLen(Tail(text))

RECURSIVE RuneLen(_)
RuneLen(text) == IF text = <<>> THEN 0 ELSE Head(text).n + RuneLen(Tail(text))

\* text[:k]: the first k bytes, which may end inside a rune
RECURSIVE Prefix(_, _)
Prefix(text, k) ==
  IF text = <<>> \/ k = 0 THEN <<>>
  ELSE LET h == Head(text)
           b == h.w * h.n
       IN IF b <= k
            THEN <<h>> \o Prefix(Tail(text), k - b)
            ELSE (IF k \div h.w > 0 THEN <<RuneRun(h.w, k \div h.w, h.s)>> ELSE <<>>)
                 \o (IF k % h.w > 0 THEN <<RuneRun(1, k % h.w, "bytes of a cut rune")>>
                     ELSE <<>>)

\* the cut made at the limit itself, the marker added after it
truncateIfNeeded_cutsAtLimit(text) ==
  IF ByteLen(text) > maxCheckRunTextLen
    THEN Prefix(text, maxCheckRunTextLen) \o Lit(truncMsg)
    ELSE text

truncateIfNeeded(text) ==
  IF ByteLen(text) > maxCheckRunTextLen
    THEN Prefix(text, maxCheckRunTextLen - Len(truncMsg)) \o Lit(truncMsg)
    ELSE text

RECURSIVE Concat(_)
Concat(texts) == IF texts = <<>> THEN <<>> ELSE Head(texts) \o Concat(Tail(texts))

\* the charts in the order of their names
chartOrderOf_sorted(rs) ==
  SelectSeq(AllChartNames, LAMBDA name : \E i \in 1..Len(rs) : rs[i].ChartName = name)

\* groupResultsByChart: the charts in the order of the first result of each
chartOrderOf(rs) ==
  LET F[i \in 0..Len(rs)] ==
        IF i = 0 THEN <<>>
        ELSE IF \E j \in 1..Len(F[i - 1]) : F[i - 1][j] = rs[i].ChartName
               THEN F[i - 1]
               ELSE Append(F[i - 1], rs[i].ChartName)
  IN F[Len(rs)]

groupResultsByChart(rs) ==
  LET chartOrder == chartOrderOf(rs)
  IN [grouped |-> [name \in {chartOrder[i] : i \in 1..Len(chartOrder)} |->
                      SelectSeq(rs, LAMBDA r : r.ChartName = name)],
      chartOrder |-> chartOrder]

chartHasChanges(rs) ==
  \E i \in 1..Len(rs) : rs[i].Status = StatusChanges \/ rs[i].Status = StatusError

separateChangedCharts(grouped, chartOrder) ==
  [changed |-> SelectSeq(chartOrder, LAMBDA name : chartHasChanges(grouped[name])),
   unchanged |-> SelectSeq(chartOrder, LAMBDA name : ~chartHasChanges(grouped[name]))]

getStatusLabel(status) ==
  CASE status = StatusError -> "Error"
    [] status = StatusChanges -> "Changed"
    [] status = StatusSuccess -> "No Changes"
    [] OTHER -> "Unknown"

formatDiffs(r) ==
  (IF r.SemanticDiff # <<>>
     THEN Lit("**Semantic Diff (dyff):**\n") \o Lit("'''diff\n") \o r.SemanticDiff
          \o Lit("\n'''\n\n")
     ELSE <<>>)
  \o (IF r.UnifiedDiff # <<>>
        THEN Lit("**Unified Diff (line-based):**\n") \o Lit("'''diff\n") \o r.UnifiedDiff
             \o Lit("\n'''\n")
        ELSE <<>>)

formatEnvironmentResult(r) ==
  Lit("<details><summary>") \o Lit(r.Environment) \o Lit(" ") \o <<RuneRun(3, 1, "em dash")>> \o Lit(" ")
  \o Lit(getStatusLabel(r.Status)) \o Lit("</summary>\n\n")
  \o (CASE r.Status = StatusError -> r.Summary \o Lit("\n")
        [] r.Status # StatusError /\ r.UnifiedDiff = <<>> /\ r.SemanticDiff = <<>>
             -> Lit("No changes detected.\n")
        [] OTHER -> formatDiffs(r))
  \o Lit("\n</details>\n\n")

formatChangedCharts(grouped, changedCharts_) ==
  Concat([i \in 1..Len(changedCharts_) |->
            Lit("## ") \o Lit(changedCharts_[i]) \o Lit("\n\n")
            \o Concat([j \in 1..Len(grouped[changedCharts_[i]]) |->
                         formatEnvironmentResult(grouped[changedCharts_[i]][j])])])

formatUnchangedCharts(unchangedCharts) ==
  IF unchangedCharts = <<>> THEN <<>>
  ELSE Lit("## Unchanged charts\n\n")
       \o Lit("The following charts were analyzed and had no changes across all environments:\n\n")
       \o Concat([i \in 1..Len(unchangedCharts) |->
                    Lit("- '") \o Lit(unchangedCharts[i]) \o Lit("'\n")])
       \o Lit("\n")

\* the text before truncateIfNeeded
reportText(grouped, changedCharts_, unchangedCharts) ==
  formatChangedCharts(grouped, changedCharts_) \o formatUnchangedCharts(unchangedCharts)

buildCheckRunText(grouped, changedCharts_, unchangedCharts) ==
  truncateIfNeeded(reportText(grouped, changedCharts_, unchangedCharts))

determineConclusion(rs) ==
  IF \E i \in 1..Len(rs) : rs[i].Status = StatusError THEN "failure" ELSE "success"

formatCheckRun(rs) ==
  LET g == groupResultsByChart(rs)
      sep == separateChangedCharts(g.grouped, g.chartOrder)
  IN [conclusion |-> determineConclusion(rs),
      summary |-> <<Len(g.chartOrder), Len(sep.changed), Len(sep.unchanged)>>,
      text |-> buildCheckRunText(g.grouped, sep.changed, sep.unchanged)]

\* the length of a diff that makes the report of one chart with one changed
\* environment exactly maxCheckRunTextLen bytes long
OneChanged(chartName, diff) ==
  <<DiffResult(chartName, "prod", StatusChanges, diff, <<>>, <<>>)>>

ReportOf(rs) ==
  LET g == groupResultsByChart(rs)
      sep == separateChangedCharts(g.grouped, g.chartOrder)
  IN reportText(g.grouped, sep.changed, sep.unchanged)

AtLimit == maxCheckRunTextLen - (ByteLen(ReportOf(OneChanged("app-a", Fill(1, 1)))) - 1)

\* what processChart may have returned for a chart
ChartOutcomes(chartName) ==
  {<<DiffResult(chartName, "prod", StatusSuccess, <<>>, <<>>, <<>>)>>,
   <<DiffResult(chartName, "dev", StatusSuccess, <<>>, <<>>, <<>>),
     DiffResult(chartName, "prod", StatusChanges, Fill(1, 12), Fill(3, 5), <<>>)>>,
   <<DiffResult(chartName, "all", StatusError, <<>>, <<>>,
                Lit("Error fetching head chart"))>>,
   OneChanged(chartName, Fill(1, AtLimit)),
   OneChanged(chartName, Fill(1, AtLimit + 1)),
   OneChanged(chartName, Fill(3, AtLimit \div 2)),
   OneChanged(chartName, Fill(4, maxCheckRunTextLen))}

\* the states of a pull request: its changed charts and what processing
\* each of them gives
PullRequests ==
  UNION {{[fn |-> "Execute", charts |-> f] :
            f \in {g \in [{AllChartNames[k] : k \in 1..n} -> UNION {ChartOutcomes(AllChartNames[k]) : k \in 1..n}] :
                     \A name \in DOMAIN g : g[name] \in ChartOutcomes(name)}} : n \in 1..MaxCharts}

RunsOf(v) == IF v.fn = "none" THEN <<>> ELSE v.runs

\* one run of Execute on the pull request: GetChangedCharts ranges over a map
\* of the chart directories, so the charts come in any order; Execute
\* appends the rs chart by chart and the reporter formats them
Report ==
  /\ call.fn = "Execute"
  /\ Len(RunsOf(retv)) < MaxRuns
  /\ \E discovered \in {q \in [1..Cardinality(DOMAIN call.charts) -> DOMAIN call.charts] :
                           \A i, j \in DOMAIN q : q[i] = q[j] => i = j} :
       LET allResults_ == Concat([i \in 1..Len(discovered) |-> call.charts[discovered[i]]])
           g == groupResultsByChart(allResults_)
           sep == separateChangedCharts(g.grouped, g.chartOrder)
           \* the charts of the report from top to bottom: the sections of
           \* the charts with changes, then the list of the unchanged charts
           ReportedCharts == sep.changed \o sep.unchanged
       IN retv' = [fn |-> "Execute",
                   runs |-> Append(RunsOf(retv),
                                   [discovered |-> discovered,
                                    results |-> allResults_,
                                    reported |-> ReportedCharts,
                                    report |-> ReportOf(allResults_),
                                    sent |-> formatCheckRun(allResults_).text])]
  /\ UNCHANGED <<call, wvars, evars, kvars, ivars, cvars>>

InitReport ==
  /\ WebhookIdle
  /\ ExecIdle /\ pc = "idle" /\ dyff = {TRUE} /\ reporter = {TRUE}
  /\ WorkersIdle
  /\ IndexIdle
  /\ CommentsIdle
  /\ call \in PullRequests
  /\ retv = NoCall


SpecReport == InitReport /\ [][Report]_vars

\* the results of the charts of a run, in order
RECURSIVE Flatten(_)
Flatten(os) == IF os = <<>> THEN <<>> ELSE os[1].results \o Flatten(Tail(os))

\* --- the end of a run: Execute at its call of UpdateCheckWithResults, on a
\* run whose reporter may refuse the results and the comments
RenderedOutcomes(chartName) ==
  {<<diffChartEnv(chartName, TRUE, ArgoEnvs[1], [err |-> FALSE, manifest |-> b],
                  [err |-> FALSE, manifest |-> h], TRUE, FALSE).result>> : b \in Manifests, h \in Manifests}

InitReporting ==
  /\ WebhookIdle
  /\ (WorkersIdle /\ IndexIdle /\ FuncIdle /\ CommentsIdle)
  /\ pc = "update"
  /\ ret = "none"
  /\ changedCharts \in ChartLists \ {<<>>}
  /\ created = 1
  /\ updates = <<>>
  /\ idx = Len(changedCharts) + 1
  /\ config = NoConfig
  /\ fetch = NoFetch
  /\ live = 0
  /\ ej = 0
  /\ results = <<>>
  /\ outcomes \in {o \in [1..Len(changedCharts) ->
                            [skipped : {FALSE},
                             results : UNION {RenderedOutcomes(changedCharts[k].Name) :
                                                k \in 1..Len(changedCharts)}]] :
                     \A k \in 1..Len(changedCharts) :
                        o[k].results \in RenderedOutcomes(changedCharts[k].Name)}
  /\ allResults = Flatten(outcomes)
  /\ chartResults = LET F[i \in 0..Len(changedCharts)] ==
                            IF i = 0 THEN <<>>
                            ELSE Upd(F[i - 1], changedCharts[i].Name, outcomes[i].results)
                      IN F[Len(changedCharts)]
  /\ todo = {}
  /\ posted = {}
  /\ called = {"GetChangedCharts", "CreateInProgressCheck", "GetEnvironmentConfig",
               "FetchChartFiles", "Render", "ComputeDiff"}
  /\ dyff = {TRUE}
  /\ reporter = BOOLEAN
  /\ failed = {}
  /\ renders = NoRenders
  /\ cfgSource = NoSource

NextReporting ==
  \/ UpdateCheckWithResults
  \/ \E chartName \in DOMAIN chartResults : PostComment(chartName)
  \/ \E chartName \in DOMAIN chartResults : SkipComment(chartName)
  \/ ExecuteDone

SpecReporting == InitReporting /\ [][NextReporting]_vars


InProgress == {r \in DOMAIN task : task[r] = "running"}
AllSlotsHeld == Cardinality(InProgress) = 5 /\ sem = 5

OpenedInput == Input(TRUE, TRUE, "pull_request", "opened")

\* C1: at every moment at most 5 orchestrator runs started by the dispatcher
\* are in progress, and a task leaves the wait for a slot only in a step
\* that finds a free slot of the semaphore and takes it.
C1_AtMostFiveRuns ==
  /\ [](Cardinality(InProgress) <= 5)
  /\ [][\A r \in DOMAIN task :
          (task[r] = "waiting" /\ task'[r] # "waiting")
            => (Cardinality(InProgress) < 5 /\ sem < 5 /\ sem' = sem + 1)]_vars

C1_Witness ==
  /\ Cardinality(InProgress) = 5
  /\ \E r \in DOMAIN task : task[r] = "waiting"

\* C2: an accepted pull-request event is dispatched and answered 202 without
\* waiting for a slot: ServeHTTP can take the event and write the response
\* whatever the semaphore holds, and only a step of a detached task (never a
\* step of the handler) takes a slot.
C2_AcceptedWithoutWaiting ==
  /\ []((nextReq <= MaxReq /\ \A r \in DOMAIN resp : resp[r] # 0)
          => ENABLED ServeHTTP(OpenedInput))
  /\ [](\A r \in DOMAIN resp : resp[r] = 0 => ENABLED WriteAccepted(r))
  /\ [][sem' > sem => (resp' = resp /\ nextReq' = nextReq
                        /\ \E r \in DOMAIN task :
                             task[r] = "waiting" /\ task'[r] = "running")]_vars

C2_Witness ==
  /\ AllSlotsHeld
  /\ lastIn.id # 0
  /\ ResponseFor(lastIn) = 0
  /\ resp[lastIn.id] = StatusAccepted
  /\ task[lastIn.id] = "waiting"

\* C3: a request whose signature does not match its body is answered 401
\* and no detached task, hence no orchestrator run, ever exists for it.
C3_BadSignatureRejected ==
  /\ (lastIn.id # 0 /\ ~lastIn.sig)
       => (resp[lastIn.id] = 401 /\ lastIn.id \notin DOMAIN task)
  /\ \A r \in DOMAIN resp : resp[r] = 401 => r \notin DOMAIN task

C3_Witness ==
  /\ lastIn.id # 0
  /\ ~lastIn.sig
  /\ resp[lastIn.id] = 401
  /\ InProgress # {}

Ignorable(in) ==
  /\ in.sig
  /\ in.parse
  /\ \/ in.event # "pull_request"
     \/ in.action \notin {"opened", "synchronize", "reopened"}

\* C4: a correctly signed event that is not a pull-request event, or whose
\* action is not opened, synchronize or reopened, is answered 200 and no
\* detached task, hence no orchestrator run, ever exists for it.
C4_IgnoredEventDropped ==
  /\ (lastIn.id # 0 /\ Ignorable(lastIn))
       => (resp[lastIn.id] = 200 /\ lastIn.id \notin DOMAIN task)
  /\ \A r \in DOMAIN resp : resp[r] = 200 => r \notin DOMAIN task

C4_Witness ==
  /\ lastIn.id # 0
  /\ lastIn.event = "pull_request"
  /\ lastIn.action = "closed"
  /\ lastIn.sig /\ lastIn.parse
  /\ resp[lastIn.id] = 200
  /\ \E r \in DOMAIN resp : r # lastIn.id /\ resp[r] = 200


CreateReturned == "CreateInProgressCheck" \in called
RunPastLoop == pc \in {"update", "comments"} \/ (pc = "done" /\ ret = "nil" /\ changedCharts # <<>>)

C6_NoChartsNoReport ==
  ("GetChangedCharts" \in called /\ "GetChangedCharts" \notin failed /\ changedCharts = <<>>)
    => /\ pc = "done"
       /\ ret = "nil"
       /\ created = 0
       /\ updates = <<>>
       /\ posted = {}
       /\ called = {"GetChangedCharts"}

C6_Witness ==
  /\ pc = "done"
  /\ ret = "nil"
  /\ changedCharts = <<>>
  /\ called = {"GetChangedCharts"}
  /\ failed = {}

\* C7: when CreateInProgressCheck fails, Execute has returned that error and
\* the run did nothing else: no configuration resolved, no chart fetched,
\* rendered or diffed, no check created or updated, no comment posted.
C7_CreateFailureAborts ==
  "CreateInProgressCheck" \in failed
    => /\ pc = "done"
       /\ ret = ErrCreatingCheck
       /\ called = {"GetChangedCharts", "CreateInProgressCheck"}
       /\ created = 0
       /\ outcomes = <<>>
       /\ allResults = <<>>
       /\ chartResults = <<>>
       /\ updates = <<>>
       /\ posted = {}
       /\ live = 0

C7_Witness ==
  /\ "CreateInProgressCheck" \in failed
  /\ Len(changedCharts) >= 2
  /\ pc = "done"
  /\ ret = ErrCreatingCheck

\* C8: a chart whose configuration cannot be resolved contributes no outcome,
\* and the run goes on: every changed chart is visited, the check update
\* carries exactly the outcomes of the charts that were resolved, in order,
\* and the comment loop has, under each resolved chart's name and under no
\* other name, the outcomes of a resolved chart of that name.
C8_ResolutionFailureSkipsChart ==
  /\ \A i \in 1..Len(outcomes) : outcomes[i].skipped => outcomes[i].results = <<>>
  /\ allResults = Flatten(outcomes)
  /\ RunPastLoop => Len(outcomes) = Len(changedCharts)
  /\ \A u \in 1..Len(updates) : updates[u] = Flatten(outcomes)
  /\ (pc \in {"comments", "done"} /\ outcomes # <<>>) => Len(updates) = 1
  /\ \A i \in 1..Len(outcomes) :
       ~outcomes[i].skipped => changedCharts[i].Name \in DOMAIN chartResults
  /\ \A n \in DOMAIN chartResults :
       \E i \in 1..Len(outcomes) :
         /\ ~outcomes[i].skipped
         /\ changedCharts[i].Name = n
         /\ chartResults[n] = outcomes[i].results
  /\ (pc = "done" /\ ret = "nil") => todo = {}

C8_Witness ==
  /\ pc = "done"
  /\ ret = "nil"
  /\ Len(outcomes) = 2
  /\ outcomes[1].skipped
  /\ ~outcomes[2].skipped
  /\ hasChanges(outcomes[2].results)
  /\ updates = <<outcomes[2].results>>
  /\ posted = {changedCharts[2].Name}

\* C9: at the end of every run, each changed chart that was processed has had
\* a comment posted if and only if one of the outcomes of that chart is
\* Changed or Failed.
C9_CommentIffChangedOrFailed ==
  (pc = "done" /\ ret = "nil")
    => \A i \in 1..Len(outcomes) :
         ~outcomes[i].skipped
           => ((changedCharts[i].Name \in posted) <=> hasChanges(outcomes[i].results))

FetchFailed == fetch.base = "err" \/ fetch.head = "err"

LastEnv == config.Environments[ej - 1]
LastResult == results[ej - 1]
EnvDone == pc \in {"envs", "return"} /\ ej > 1 /\ Len(results) = ej - 1

BaseManifest == IF renders.base.called THEN renders.base.manifest ELSE NilManifest
BothRendered ==
  /\ EnvDone
  /\ renders.head.called /\ ~renders.head.err
  /\ ~renders.base.err

HeldResults ==
  {results[j] : j \in DOMAIN results}
    \cup {allResults[j] : j \in DOMAIN allResults}
    \cup UNION {{chartResults[n][j] : j \in DOMAIN chartResults[n]} : n \in DOMAIN chartResults}
    \cup UNION {{u[j] : j \in DOMAIN u} : u \in {updates[k] : k \in DOMAIN updates}}

\* C15: every result with status Changed has a non-empty line diff or a
\* non-empty structural diff, and every result with status Failed has a
\* non-empty summary.
C15_OutcomeWellFormed ==
  \A r \in HeldResults :
     /\ r.Status = StatusChanges => (r.UnifiedDiff # "" \/ r.SemanticDiff # "")
     /\ r.Status = StatusError => r.Summary # ""

C15_Witness ==
  /\ pc = "return"
  /\ \E r \in HeldResults : r.Status = StatusChanges /\ r.SemanticDiff = "" /\ r.UnifiedDiff # ""
  /\ \E r \in HeldResults : r.Status = StatusChanges /\ r.SemanticDiff # ""
  /\ \E r \in HeldResults : r.Status = StatusError /\ r.Summary = "failed to render PR changes"

Resolved == cfgSource.source # "none"
SyntheticEnvs == <<EnvironmentConfig("default", <<>>, "")>>

\* C16: the sources are tried in the order index, directory scan, synthetic
\* entry, and the first hit wins: when the index has an environment for the
\* chart the configuration is exactly the index's environments and the
\* directory is not scanned; the scan's environments are used only when the
\* index has none; the synthetic entry is used only when neither has any.
C16_FirstHitWins ==
  Resolved =>
    /\ Len(cfgSource.index) > 0 =>
         /\ cfgSource.source = "argo"
         /\ config.Environments = cfgSource.index
         /\ ~cfgSource.scanned
    /\ cfgSource.scanned => Len(cfgSource.index) = 0
    /\ cfgSource.source = "filesystem" =>
         /\ Len(cfgSource.index) = 0
         /\ Len(cfgSource.scan) > 0
         /\ config.Environments = cfgSource.scan
    /\ (Len(cfgSource.index) = 0 /\ Len(cfgSource.scan) > 0) => cfgSource.source = "filesystem"
    /\ (cfgSource.source = "default" \/ config.Environments = SyntheticEnvs) <=>
         (Len(cfgSource.index) = 0 /\ Len(cfgSource.scan) = 0)

C16_Witness ==
  /\ pc = "fetchBase"
  /\ idx = 2
  /\ cfgSource.source = "argo" /\ ~cfgSource.scanned
  /\ config.Environments = ArgoEnvs
  /\ Len(outcomes) = 1 /\ ~outcomes[1].skipped

\* C17: when neither the index nor the directory scan has an environment,
\* the configuration is a single entry with no value files and an advisory
\* message, and processChart renders nothing for it and returns exactly one
\* result, with status Unchanged and the message as its summary.
C17_SyntheticEntryNotRendered ==
  (Resolved /\ Len(cfgSource.index) = 0 /\ Len(cfgSource.scan) = 0) =>
     /\ Len(config.Environments) = 1
     /\ Len(config.Environments[1].ValueFiles) = 0
     /\ config.Environments[1].Message # ""
     /\ (pc = "return" /\ fetch.head = "ok") =>
          /\ ~renders.base.called /\ ~renders.head.called
          /\ Len(results) = 1
          /\ results[1].Status = StatusSuccess
          /\ results[1].Summary = config.Environments[1].Message

\* C18: a lookup returns the environments of the index as it was when the
\* cycle began or of the index built from the whole mirror, never those of a
\* map the walk has only partly filled.
C18_RebuildAtomic ==
  \A r \in Reading :
     rd[r].got \in {GetEnvironmentConfig(before.index, rd[r].chart),
                    GetEnvironmentConfig(IndexOf(mirror), rd[r].chart)}

C18_Witness ==
  \E r \in Reading :
     /\ rd[r].during = "walk" /\ walked = 1 /\ mirror = {1, 3, 4}
     /\ rd[r].chart = "app-a"
     /\ Len(rd[r].got.Environments) = 2
     /\ before.index = IndexOf({1, 3})

\* C19: while a cycle is pulling or walking the mirror a.mu is not
\* write-locked, so a lookup is granted its read lock at once, and what it
\* returns comes from the index as it was when the cycle began; lookups wait
\* only from the call of Lock for the swap until the swap is done.
C19_LookupsNotBlockedByWalk ==
  /\ gpc \in {"pull", "walk"} => ~WriteLocked
  /\ \A r \in Reading :
        rd[r].during \in {"pull", "walk"} =>
           rd[r].got = GetEnvironmentConfig(before.index, rd[r].chart)

C19_Witness ==
  /\ gpc = "walk" /\ walked = 3
  /\ \E r \in Reading :
        /\ rd[r].during = "pull"
        /\ rd[r].chart = "app-b"
        /\ Len(rd[r].got.Environments) = 1
  /\ \E r \in Reading :
        /\ rd[r].during = "walk"
        /\ rd[r].chart = "app-a"
        /\ rd[r].got # GetEnvironmentConfig(building, "app-a")

\* C20: after a cycle whose pull failed, rebuildIndex has not been called in
\* that cycle and a.index is what it was when the cycle began, so every
\* lookup returns what it returned before the cycle.
C20_FailedPullKeepsIndex ==
  (before.pull = "failed" /\ gpc \in {"idle", "failed"}) =>
     /\ walks = before.walks
     /\ index = before.index
     /\ \A r \in Reading :
           rd[r].got = GetEnvironmentConfig(before.index, rd[r].chart)

C20_Witness ==
  /\ before.pull = "failed" /\ gpc = "idle"
  /\ cycles = 2 /\ walks = 2
  /\ index = IndexOf({1, 4})
  /\ \E r \in Reading : rd[r].during = "idle" /\ rd[r].chart = "app-a"

\* the files of the mirror that are Application manifests lying in a
\* directory of the form chart/environment
ValidFiles ==
  {k \in mirror : AppFiles[k].content = "Application" /\ Len(AppFiles[k].dir) >= 2}
Indexed(k) ==
  LET dir == AppFiles[k].dir
      chart == dir[Len(dir) - 1]
  IN /\ chart \in DOMAIN index
     /\ \E j \in DOMAIN index[chart] : index[chart][j].Environment = dir[Len(dir)]
IndexSize == IF DOMAIN index = {} THEN 0
             ELSE Cardinality(UNION {{<<c, j>> : j \in DOMAIN index[c]} : c \in DOMAIN index})
CycleDone == gpc = "idle" /\ before.pull = "ok"

\* C21: a rebuild always completes, whatever files the mirror holds: after a
\* cycle whose pull succeeded the index holds every valid Application
\* manifest of the mirror and nothing else, the unreadable file, the file
\* that does not parse, the resource of another kind and the file outside
\* the folder pattern being left out.
C21_BadFileSkipped ==
  CycleDone =>
    /\ \A k \in ValidFiles : Indexed(k)
    /\ IndexSize = Cardinality(ValidFiles)

C21_Witness ==
  /\ CycleDone
  /\ mirror = {1, 2, 3, 4}
  /\ IndexSize = 3
  /\ cycles = 1

Extracted == call.fn = "extractFromFolderStructure" /\ retv # NoCall
SlotAt(slot) == {i \in 1..Len(call.patternParts) : call.patternParts[i] = slot}
\* the component of the path under position i of the pattern, the pattern
\* laid over the last components of the path
Under(i) == call.parts[Len(call.parts) - Len(call.patternParts) + i]

\* C28: the last N components of the directory are laid positionally under
\* the N parts of the pattern: with no error the chart name and the
\* environment are the components under their slots; a path with fewer
\* components than the pattern, or a pattern without a chartName or an
\* envName slot, gives an error; {chartName}/{envName} on .../my-app/prod
\* gives (my-app, prod).
C28_FolderPatternPositional ==
  Extracted =>
    /\ retv.err # "" <=> \/ Len(call.parts) < Len(call.patternParts)
                         \/ SlotAt("{chartName}") = {}
                         \/ SlotAt("{envName}") = {}
    /\ retv.err # "" => retv.chartName = "" /\ retv.env = ""
    /\ retv.err = "" =>
         /\ \E i \in SlotAt("{chartName}") : retv.chartName = Under(i)
         /\ \E i \in SlotAt("{envName}") : retv.env = Under(i)
         /\ Cardinality(SlotAt("{chartName}")) = 1 =>
              \A i \in SlotAt("{chartName}") : retv.chartName = Under(i)
         /\ Cardinality(SlotAt("{envName}")) = 1 =>
              \A i \in SlotAt("{envName}") : retv.env = Under(i)
    /\ (call.patternParts = folderPattern /\ Len(call.parts) >= 2
          /\ call.parts[Len(call.parts) - 1] = "my-app" /\ call.parts[Len(call.parts)] = "prod") =>
         (retv.err = "" /\ retv.chartName = "my-app" /\ retv.env = "prod")

C28_Witness ==
  /\ Extracted
  /\ call.patternParts = folderPattern
  /\ call.parts = <<".", "my-app", "prod">>
  /\ retv.chartName = "my-app" /\ retv.env = "prod"

FetchedTrees == Deferred(fetch).base + Deferred(fetch).head

C23_EveryFetchCleanedUp ==
  /\ pc = "returned" => live = 0
  /\ pc \in {"fetchHead", "envs", "return"} => live = FetchedTrees
  /\ pc \in {"start", "create", "chart", "update", "comments", "done"} => live = 0

\* the head fetch failed after the base fetch succeeded, and processChart
\* has returned with the base tree cleaned up
C23_Witness ==
  /\ pc = "returned"
  /\ fetch.base = "ok" /\ fetch.head = "err"
  /\ live = 0

\* C24: within processChart each ref is fetched at most once, and exactly
\* once by the time the loop over the environments is reached, however many
\* environments there are; and a render is called only when the base fetch
\* has ended (found or not found) and the head fetch has succeeded.
RenderStarted == renders.base.called \/ renders.head.called

ReportingFailed == failed \cap {"UpdateCheckWithResults", "PostComment"} # {}
WithChanges == {chartName \in DOMAIN chartResults : hasChanges(chartResults[chartName])}

C25_ReportingFailureOnlyLogged ==
  ReportingFailed =>
    /\ pc \in {"comments", "done"}
    /\ ret \in {"none", "nil"}
    /\ created = 1
    /\ updates = <<allResults>>
    /\ posted \subseteq WithChanges
    /\ pc = "done" => (ret = "nil" /\ posted = WithChanges)

\* a run over two charts with changes in which the update of the check and
\* a comment failed, ended with nil and with both comments attempted
C25_Witness ==
  /\ pc = "done"
  /\ ret = "nil"
  /\ failed = {"UpdateCheckWithResults", "PostComment"}
  /\ Cardinality(posted) = 2

\* C26: the text sent for the check run is at most maxCheckRunTextLen bytes
\* long, hence at most that many characters, and when the report before
\* truncation is longer than that, in characters or only in bytes, the sent
\* text ends with the truncation marker and is exactly at the limit.
EndsWithMarker(text) == text # <<>> /\ <<text[Len(text)]>> = Lit(truncMsg)

C26_SentTextWithinLimit ==
  \A k \in 1..Len(RunsOf(retv)) :
     LET run == RunsOf(retv)[k]
     IN /\ ByteLen(run.sent) <= maxCheckRunTextLen
        /\ RuneLen(run.sent) <= maxCheckRunTextLen
        /\ RuneLen(run.report) > maxCheckRunTextLen => EndsWithMarker(run.sent)
        /\ ByteLen(run.report) > maxCheckRunTextLen
              => EndsWithMarker(run.sent) /\ ByteLen(run.sent) = maxCheckRunTextLen
        /\ ByteLen(run.report) <= maxCheckRunTextLen => run.sent = run.report

\* a report of more characters than the limit was sent truncated
C26_Witness ==
  \E k \in 1..Len(RunsOf(retv)) :
     LET run == RunsOf(retv)[k]
     IN /\ RuneLen(run.report) > maxCheckRunTextLen
        /\ EndsWithMarker(run.sent)
        /\ ByteLen(run.sent) = maxCheckRunTextLen

\* C27 as stated: in every run the charts appear in the report in the
\* order in which they were discovered, and two runs on the same state of
\* the pull request report the charts in the same order.
C27_ChartsInDiscoveryOrder ==
  /\ \A k \in 1..Len(RunsOf(retv)) : RunsOf(retv)[k].reported = RunsOf(retv)[k].discovered
  /\ \A j, k \in 1..Len(RunsOf(retv)) : RunsOf(retv)[j].reported = RunsOf(retv)[k].reported

\* C27 amended: the report groups the outcomes by chart, the first-seen
\* order of the charts is the order in which they were discovered, and the
\* report lists the charts with changes in that order and after them the
\* unchanged charts in that order.
C27_ChangedFirstThenFirstSeen ==
  \A k \in 1..Len(RunsOf(retv)) :
     LET run == RunsOf(retv)[k]
         g == groupResultsByChart(run.results)
     IN /\ g.chartOrder = run.discovered
        /\ \A name \in DOMAIN call.charts : g.grouped[name] = call.charts[name]
        /\ run.reported =
             SelectSeq(run.discovered, LAMBDA name : hasChanges(call.charts[name]))
             \o SelectSeq(run.discovered, LAMBDA name : ~hasChanges(call.charts[name]))

\* two runs on the same pull request that discovered the charts in different
\* orders, one of them with an unchanged chart discovered before a chart
\* with changes and reported after it
C27_Witness ==
  \E j, k \in 1..Len(RunsOf(retv)) :
     /\ RunsOf(retv)[j].discovered # RunsOf(retv)[k].discovered
     /\ RunsOf(retv)[j].reported # RunsOf(retv)[j].discovered
     /\ Len(RunsOf(retv)[j].reported) = Len(RunsOf(retv)[j].discovered)

RunsOnce ==
  \A r \in DOMAIN task :
     /\ task[r] = "done" => task'[r] = "done"
     /\ task[r] = "running" => task'[r] \in {"running", "done"}

C30_AcceptedEventRunsOnce ==
  /\ \A r \in 1..MaxReq :
        (r \in DOMAIN task /\ task[r] = "waiting")
           ~> (r \in DOMAIN task /\ task[r] = "running")
  /\ [][RunsOnce]_vars

\* more events accepted than there are slots, one run over and every slot
\* taken by the others
C30_Witness ==
  /\ sem = maxConcurrentWebhooks
  /\ Cardinality(DOMAIN task) > maxConcurrentWebhooks
  /\ \E r \in DOMAIN task : task[r] = "done"
  /\ \A r \in DOMAIN task : task[r] \in {"running", "done"}

\* C31: a task gives back exactly one slot in the step in which its run of
\* Execute returns, and in no other step; the slots held are as many as the
\* tasks between acquisition and return, and none is held once every task
\* has finished.
C31_SlotsMatchRunningTasks ==
  /\ [](sem = Cardinality(InProgress))
  /\ []((\A r \in DOMAIN task : task[r] = "done") => sem = 0)
  /\ [][\A r \in DOMAIN task :
          (task[r] = "running" /\ task'[r] # "running")
             => (task'[r] = "done" /\ sem' = sem - 1)]_vars
  /\ [][sem' < sem => \E r \in DOMAIN task : task[r] = "running" /\ task'[r] = "done"]_vars

\* more events than slots were accepted and every task has finished
C31_Witness ==
  /\ Cardinality(DOMAIN task) > maxConcurrentWebhooks
  /\ \A r \in DOMAIN task : task[r] = "done"
  /\ sem = 0

\* C32: the pull-and-rebuild cycles exclude each other: a cycle (the one of
\* Start or one of sync) runs only while its caller holds r.mu, it begins
\* only by taking r.mu when nobody holds it, and r.mu never passes from one
\* holder to another without being released.
InCycle == gpc \in {"pull", "walk", "lock"}

C32_RebuildCyclesExclusive ==
  /\ [](InCycle => rmu \in {"Start", "sync"})
  /\ [][(~InCycle /\ InCycle') => (rmu = "free" /\ rmu' # "free")]_vars
  /\ [][(rmu # "free" /\ rmu' # rmu) => rmu' = "free"]_vars
  /\ [][walks' # walks => (rmu' # "free" /\ walks' = walks + 1 /\ gpc' = "walk")]_vars

\* a periodic cycle walks the mirror under r.mu after the cycle of Start and
\* an earlier periodic cycle
C32_Witness ==
  /\ rmu = "sync"
  /\ gpc = "walk"
  /\ walks = 3

\* C33: a cycle goes from idle through the walk to the swap and back to
\* idle in that order: the walk begins only when a cycle's pull succeeded,
\* Lock is called only from the walk, a.index is replaced only in the step
\* that ends a cycle whose walk has passed every file of the mirror, with
\* the map that walk built, and a cycle that walks comes back to idle.
C33_CycleOrder ==
  /\ [][gpc' # gpc =>
          \/ gpc = "new" /\ gpc' \in {"walk", "failed"}
          \/ gpc = "idle" /\ gpc' = "pull"
          \/ gpc = "pull" /\ gpc' \in {"walk", "idle"}
          \/ gpc = "walk" /\ gpc' = "lock"
          \/ gpc = "lock" /\ gpc' = "idle"]_vars
  /\ [][(gpc = "lock" /\ gpc' = "idle") => (Unwalked = {} /\ index' = building)]_vars
  /\ [][index' # index => (gpc = "lock" /\ gpc' = "idle")]_vars
  /\ (gpc = "walk") ~> (gpc = "idle")

\* a periodic cycle has swapped in the index of a mirror that differs from
\* the one before, after waiting for a lookup
C33_Witness ==
  /\ gpc = "idle" /\ cycles = 2 /\ walks = 3
  /\ before.pull = "ok"
  /\ index = IndexOf(mirror)
  /\ index # before.index

\* C34: once the loop over the changed charts is over, the results kept for
\* the comment of a chart are the outcomes of one processed chart, whole and
\* unmixed, and the outcomes of every processed chart are kept for a
\* comment: none is lost, also when two changed charts declare one name.
C34_CommentFromOwnResults ==
  (pc \in {"update", "comments", "done"} /\ ret \in {"none", "nil"} /\ created = 1)
    => /\ \A name \in DOMAIN chartResults :
             \E i \in 1..Len(outcomes) :
                /\ ~outcomes[i].skipped
                /\ changedCharts[i].Name = name
                /\ chartResults[name] = outcomes[i].results
       /\ \A i \in 1..Len(outcomes) :
             ~outcomes[i].skipped
               => /\ changedCharts[i].Name \in DOMAIN chartResults
                  /\ chartResults[changedCharts[i].Name] = outcomes[i].results

\* C35: a run that created a check calls UpdateCheckWithResults once: never
\* before the loop has passed the last changed chart, with the outcomes of
\* all processed charts in order, and before the first PostComment.
C35_OneUpdateBetweenChartsAndComments ==
  /\ [](Len(updates) <= 1)
  /\ []((created = 1 /\ pc \in {"comments", "done"})
          => /\ Len(updates) = 1
             /\ Len(outcomes) = Len(changedCharts)
             /\ updates[1] = Flatten(outcomes))
  /\ [](posted # {} => Len(updates) = 1)
  /\ [][updates' # updates
          => (created = 1 /\ idx > Len(changedCharts) /\ posted = {} /\ posted' = {})]_vars

\* a finished run over two charts, one skipped and one processed, with the
\* update made and a comment posted
C35_Witness ==
  /\ pc = "done" /\ ret = "nil"
  /\ Len(changedCharts) = 2
  /\ \E i \in 1..2 : outcomes[i].skipped
  /\ Len(updates) = 1 /\ updates[1] # <<>>
  /\ posted # {}

\* C36: when Execute has returned from a run that created the check, on a
\* reporter whose requests do not fail, the check is completed: the update
\* was made and returned no error, also when every chart was skipped.
C36_CheckCompleted ==
  (pc = "done" /\ created = 1)
    => (Len(updates) = 1 /\ "UpdateCheckWithResults" \notin failed)

\* C37: when the runs that post at the same time have all finished, at
\* most one comment with the marker of a chart is on the pull request, for
\* every chart two of the runs posted the comment of.
C37_OneCommentAfterConcurrentRuns ==
  (\A r \in DOMAIN poster : poster[r].st = "done")
    => \A r1, r2 \in DOMAIN poster :
          (r1 # r2 /\ poster[r1].chart = poster[r2].chart)
             => Cardinality(Matching(poster[r1].chart)) <= 1

\* C38 as stated: an error of a source is contained and the next source is
\* tried until one gives environments, so getChartConfig always returns a
\* configuration with at least one environment and no error.
C38_EveryStrategyContained ==
  retv.fn = "getChartConfig"
    => (~retv.err /\ Len(retv.config.Environments) > 0)

\* C38: an error of the index lookup is contained and the directory scan is
\* tried, with the result the scan gives when the index has nothing for the
\* chart; an error of the directory scan is returned by the resolver, which
\* then gives no configuration and does not go on to the synthetic entry.
C38_IndexErrorContainedScanErrorReturned ==
  retv.fn = "getChartConfig"
    => /\ (call.argo.configured /\ call.argo.err)
            => /\ retv.err = call.fs.err
               /\ ~call.fs.err
                    => /\ retv.from.scanned
                       /\ retv.from.source \in {"filesystem", "default"}
                       /\ Len(call.fs.config.Environments) > 0 => retv.config = call.fs.config
                       /\ Len(retv.config.Environments) > 0
       /\ retv.err <=> (call.fs.err /\ ~(/\ call.argo.configured /\ ~call.argo.err
                                         /\ Len(call.argo.config.Environments) > 0))
       /\ retv.err => retv.config = NoConfig

\* the index lookup failed and the environments come from the directory scan
C38_Witness ==
  /\ retv.fn = "getChartConfig"
  /\ call.argo.configured /\ call.argo.err
  /\ ~call.fs.err /\ Len(call.fs.config.Environments) = 2
  /\ ~retv.err /\ retv.from.source = "filesystem"
  /\ retv.config.Environments = call.fs.config.Environments

\* the two manifests diffChartEnv compared in the call that returned
C39_Base == IF call.baseExists THEN call.rb.manifest ELSE NilManifest

\* C39: a differ that fails returns the empty string: when dyff does not run
\* the semantic diff is empty, when difflib returns an error the unified diff
\* is empty, and a result over two equal manifests is never Changed whatever
\* the differs met.
C39_DifferErrorsSwallowed ==
  (retv.fn = "diffChartEnv" /\ ~retv.err)
    => /\ ~call.dyffRuns => retv.result.SemanticDiff = ""
       /\ call.difflibErr => retv.result.UnifiedDiff = ""
       /\ C39_Base = call.rh.manifest => retv.result.Status = StatusSuccess

\* the tasks that were dispatched and have not finished: waiting for a slot
\* or running
Unfinished == {r \in DOMAIN task : task[r] \in {"waiting", "running"}}

\* C40 as stated: the tasks dispatched and not finished, running or waiting
\* for a slot, are never more than the fixed bound the handler has, the size
\* of the semaphore.
C40_UnfinishedTasksBounded == Cardinality(Unfinished) <= maxConcurrentWebhooks

\* C40: the running tasks are never more than the size of the semaphore;
\* every request that was accepted has its own task, and the step that
\* accepts a request adds one task to those not finished however many
\* there are, so their number follows the number of accepted webhooks.
C40_OnlyRunningTasksBounded ==
  /\ [](Cardinality(InProgress) <= maxConcurrentWebhooks)
  /\ [](\A r \in DOMAIN resp : resp[r] \in {0, StatusAccepted} => r \in DOMAIN task)
  /\ [][(nextReq' # nextReq /\ ResponseFor(lastIn') = 0)
         => /\ task' = Upd(task, nextReq, "waiting")
            /\ Cardinality(Unfinished') = Cardinality(Unfinished) + 1]_vars

\* every request so far was accepted and answered, every slot is held and
\* no task has finished: more tasks are unfinished than there are slots
C40_Witness ==
  /\ Cardinality(Unfinished) > maxConcurrentWebhooks
  /\ Unfinished = DOMAIN task
  /\ \A r \in DOMAIN resp : resp[r] = StatusAccepted
  /\ sem = maxConcurrentWebhooks
====
